---- MODULE Spec2Model ----
(***************************************************************************)
(* A model of sled-extensions' ExpiringTree (src/src/expiring_tree.rs)     *)
(* over StructuredTree (src/src/structured_tree.rs).                       *)
(*                                                                         *)
(* An ExpiringTree is three sled trees: data, expires_at (key -> expiry)   *)
(* and expires_at_inverse (string of an expiry -> set of keys).  Each call *)
(* into one sled tree is one atomic step; an ExpiringTree operation is a   *)
(* sequence of such steps, so the steps of concurrent callers interleave.  *)
(***************************************************************************)
EXTENDS Integers, Sequences, FiniteSets, TLC

\* ------------------------------------------------------------------ bounds
\* The clock runs from 0 to MaxTime (in half seconds) with one caller and
\* from 0 to MaxTimeConc with concurrent callers.
MaxTime == 2
MaxTimeConc == 1
\* The refresh counter of a key saturates at MaxRefresh.
MaxRefresh == 3
\* At most MaxFaults calls into sled return an error.
MaxFaults == 1
\* A batch records at most MaxBatch operations while it is built.
MaxBatch == 4
\* The closure of a transaction makes at most MaxTxOps operations.
MaxTxOps == 2
\* Where the number of operations is finite, the callers start MaxCalls.
MaxCalls == 2
\* The engine runs the closure of a transaction again at most MaxReruns times.
MaxReruns == 1
\* The name of a tree is made of at most MaxNameLen pieces.
MaxNameLen == 2

Keys == {"a", "b"}
\* the keys of the specifications of batches
BatchKeys == Keys \cup {"c"}
Vals == {"v1", "v2"}
T1 == "t1"
T2 == "t2"
Threads == {T1, T2}
\* expiration_length, in half seconds (ExpiringTreeBuilder::expiration_length)
Lengths == {0, 1}
\* chrono::Duration::hours(12), in ticks of half a second
TwelveHours == 86400

\* ------------------------------------------------------- Option and Result
None == <<>>
Some(x) == <<x>>
IsSome(o) == Len(o) = 1
IsNone(o) == Len(o) = 0
Unwrap(o) == o[1]

Ok(x) == [ok |-> TRUE, val |-> x]
Err(e) == [ok |-> FALSE, err |-> e]

\* ---------------------------------------------------------------- Encoding
\* Encoding::encode / Encoding::decode: bytes are a tagged copy of the
\* value; bytes without the tag do not decode.
Encode(v) == Ok(<<"enc", v>>)
\* Faulty variant: every encoded value decodes to the same value
Decode_lossy(b) ==
    IF Len(b) = 2 /\ b[1] = "enc" THEN Ok("v1") ELSE Err("decode")
Decode(b) ==
    IF Len(b) = 2 /\ b[1] = "enc" THEN Ok(b[2]) ELSE Err("decode")

\* ------------------------------------------------- DateTime<Utc>::to_string
\* The bytes of a timestamp.  chrono prints the seconds in two digits and
\* the fraction only when it is not zero ("01 UTC", "01.500 UTC"); the
\* date, hour and minute in front are the same for every timestamp of the
\* model and are left out.  Bytes are ASCII codes.
Digit(d) == 48 + d
to_string(t) ==
    LET s == t \div 2 IN
    <<Digit(s \div 10), Digit(s % 10)>> \o
        (IF t % 2 = 0 THEN <<32, 85, 84, 67>>
                      ELSE <<46, 53, 48, 48, 32, 85, 84, 67>>)

\* sled orders keys lexicographically over raw bytes.
BytesLess(x, y) ==
    \E i \in 1..Len(y) :
        /\ i <= Len(x) + 1
        /\ \A j \in 1..(i - 1) : x[j] = y[j]
        /\ (i = Len(x) + 1 \/ x[i] < y[i])

\* the bytes of a key (key.as_ref())
KeyBytes(k) == IF k = "a" THEN <<97>> ELSE IF k = "b" THEN <<98>> ELSE <<99>>
\* sled's order of two keys
KeyLess(x, y) == BytesLess(KeyBytes(x), KeyBytes(y))

\* ------------------------------------------------------------ sled::Tree
\* A tree is a function from the keys it holds to their bytes.
EmptyTree == <<>>
TreeGet(tree, k) == IF k \in DOMAIN tree THEN Some(tree[k]) ELSE None
TreeInsert(tree, k, b) ==
    [x \in (DOMAIN tree) \cup {k} |-> IF x = k THEN b ELSE tree[x]]
TreeRemove(tree, k) == [x \in (DOMAIN tree) \ {k} |-> tree[x]]
\* set the key to Some(bytes), delete it on None
TreePut(tree, k, ob) ==
    IF IsSome(ob) THEN TreeInsert(tree, k, Unwrap(ob)) ELSE TreeRemove(tree, k)

\* -------------------------------------------------------- StructuredTree
\* Each operation gives [tree |-> the tree afterwards, res |-> its Result].

\* decode of an Option of bytes: Ok(None), Ok(Some(v)) or the decode error
DecodeOpt(ob) ==
    IF IsNone(ob) THEN Ok(None)
    ELSE LET d == Decode(Unwrap(ob)) IN
         IF d.ok THEN Ok(Some(d.val)) ELSE d

StructuredTree_get(tree, k) ==
    [tree |-> tree, res |-> DecodeOpt(TreeGet(tree, k))]

StructuredTree_insert(tree, k, value) ==
    LET v == Encode(value) IN
    IF ~v.ok THEN [tree |-> tree, res |-> v]
    ELSE [tree |-> TreeInsert(tree, k, v.val),
          res |-> DecodeOpt(TreeGet(tree, k))]

\* Faulty variant: the key is read, not removed
StructuredTree_remove_reads(tree, k) ==
    [tree |-> tree, res |-> DecodeOpt(TreeGet(tree, k))]

StructuredTree_remove(tree, k) ==
    [tree |-> TreeRemove(tree, k), res |-> DecodeOpt(TreeGet(tree, k))]

\* coerce(opt.map(E::encode))
EncodeOpt(o) ==
    IF IsNone(o) THEN Ok(None)
    ELSE LET e == Encode(Unwrap(o)) IN
         IF e.ok THEN Ok(Some(e.val)) ELSE e

\* Faulty variant: the proposed value is stored whatever the key holds
StructuredTree_compare_and_swap_blind(tree, k, old, new) ==
    [tree |-> TreePut(tree, k, EncodeOpt(new).val), res |-> Ok(Ok("swapped"))]

StructuredTree_compare_and_swap(tree, k, old, new) ==
    LET ov == EncodeOpt(old)
        nv == EncodeOpt(new)
        cur == TreeGet(tree, k)
    IN  IF ~ov.ok THEN [tree |-> tree, res |-> ov]
        ELSE IF ~nv.ok THEN [tree |-> tree, res |-> nv]
        ELSE IF cur = ov.val
             THEN [tree |-> TreePut(tree, k, nv.val), res |-> Ok(Ok("swapped"))]
        ELSE LET current == DecodeOpt(cur)
                 proposed == DecodeOpt(nv.val)
             IN  IF ~current.ok THEN [tree |-> tree, res |-> current]
                 ELSE IF ~proposed.ok THEN [tree |-> tree, res |-> proposed]
                 ELSE [tree |-> tree,
                       res |-> Ok(Err([current |-> current.val,
                                       proposed |-> proposed.val]))]

\* Result::ok() on a Result of an Option, inside and_then: an error
\* becomes None
OkOrNone(r) == IF r.ok THEN r.val ELSE None

\* update_and_fetch with closure f (a function of the Option it is given):
\* the stored bytes are decoded with .ok() (o), f's result is encoded with
\* .ok() (nb, the new bytes), the new bytes are decoded for the result.
\* o and nb are bound as values, each computed once.
StructuredTree_update_and_fetch(tree, k, f) ==
    CHOOSE out \in
        {[tree |-> TreePut(tree, k, nb), res |-> DecodeOpt(nb)] :
            nb \in {OkOrNone(EncodeOpt(f[o])) :
                        o \in {OkOrNone(DecodeOpt(TreeGet(tree, k)))}}} : TRUE

\* fetch_and_update with closure f: as update_and_fetch, but the result is
\* the decoded previous bytes
StructuredTree_fetch_and_update(tree, k, f) ==
    LET cur == TreeGet(tree, k)
        d == DecodeOpt(cur)
        o == IF d.ok THEN d.val ELSE None
        r == EncodeOpt(f[o])
        nb == IF r.ok THEN r.val ELSE None
    IN  [tree |-> TreePut(tree, k, nb), res |-> DecodeOpt(cur)]

\* Faulty variant: pop_min takes the greatest key
MinKey_greatest(tree) ==
    CHOOSE k \in DOMAIN tree : \A x \in DOMAIN tree \ {k} : KeyLess(x, k)

\* the entry sled's pop_min / pop_max takes: the least / greatest key
MinKey(tree) == CHOOSE k \in DOMAIN tree : \A x \in DOMAIN tree \ {k} : KeyLess(k, x)
MaxKey(tree) == CHOOSE k \in DOMAIN tree : \A x \in DOMAIN tree \ {k} : KeyLess(x, k)

\* pop of entry k: the entry is removed, then its value is decoded
StructuredTree_pop(tree, k) ==
    LET d == Decode(tree[k]) IN
    [tree |-> TreeRemove(tree, k),
     res |-> IF d.ok THEN Ok(Some(<<k, d.val>>)) ELSE d]

StructuredTree_pop_min(tree) ==
    IF DOMAIN tree = {} THEN [tree |-> tree, res |-> Ok(None)]
    ELSE StructuredTree_pop(tree, MinKey(tree))

StructuredTree_pop_max(tree) ==
    IF DOMAIN tree = {} THEN [tree |-> tree, res |-> Ok(None)]
    ELSE StructuredTree_pop(tree, MaxKey(tree))

\* get_lt / get_gt: the entry of the greatest key below k / of the least key
\* above k, its value decoded
StructuredTree_get_lt(tree, k) ==
    LET below == {x \in DOMAIN tree : KeyLess(x, k)} IN
    IF below = {} THEN [tree |-> tree, res |-> Ok(None)]
    ELSE LET x == CHOOSE y \in below : \A z \in below \ {y} : KeyLess(z, y)
             d == Decode(tree[x])
         IN  [tree |-> tree, res |-> IF d.ok THEN Ok(Some(<<x, d.val>>)) ELSE d]

StructuredTree_get_gt(tree, k) ==
    LET above == {x \in DOMAIN tree : KeyLess(k, x)} IN
    IF above = {} THEN [tree |-> tree, res |-> Ok(None)]
    ELSE LET x == CHOOSE y \in above : \A z \in above \ {y} : KeyLess(y, z)
             d == Decode(tree[x])
         IN  [tree |-> tree, res |-> IF d.ok THEN Ok(Some(<<x, d.val>>)) ELSE d]

\* ------------------------------------------------------------------ state
VARIABLES
    data,                \* ExpiringTree.data
    expires_at,          \* ExpiringTree.expires_at
    expires_at_inverse,  \* ExpiringTree.expires_at_inverse
    extend_on_update,    \* ExpiringTree.extend_on_update
    extend_on_fetch,     \* ExpiringTree.extend_on_fetch
    expiration_length,   \* ExpiringTree.expiration_length
    clock,               \* what Utc::now() returns
    th,                  \* each thread's position and locals:
                         \*   pc      where it is in its operation
                         \*   op, key, old, new   the call and its arguments
                         \*   f       the closure given to update_and_fetch /
                         \*           fetch_and_update, by name
                         \*   ret     the result of the data step (opt, res),
                         \*           or the first error
                         \*   at      `now`
                         \*   prev    `prev`, the replaced forward entry
                         \*   cursor  the last bucket read by expired()
                         \*   batch   the caller's ExpiringBatch: writes (.0),
                         \*           keys (.1) and, while it is applied, the
                         \*           keys the loop has not reached (rest)
                         \*   log     the operations recorded in the batch, or
                         \*           made by the closure of a transaction
                         \*   seen    what the retry loop of a bucket update read
                         \*           last: the position it was read at (pc), the
                         \*           bytes (current), the failed swaps (retries)
                         \*   it      the caller's ExpiringIter: the bounds of
                         \*           the sled::Iter (lo, hi) and the item that
                         \*           next() is about to yield
    observe,             \* whether callers keep their arguments and results
                         \* until the operation has returned
    refreshed,           \* per key: refreshes completed since it had no
                         \* forward entry; -1 when they are not counted
    emptied,             \* history: 1 once a bucket update has dropped the
                         \* only member of a bucket, 0 before; -1 when it is
                         \* not recorded
    faults,              \* the number of calls into sled that will still
                         \* return an error
    calls,               \* the number of operations the callers will still
                         \* start, where their number is finite; 0 elsewhere
    second               \* a second ExpiringTree built from the same Db:
                         \*   name  the name it was built with
                         \*   db    the trees of the Db under the names of
                         \*         its collections, those of the first
                         \*         tree (data, expires_at,
                         \*         expires_at_inverse) left out

vars == <<data, expires_at, expires_at_inverse, extend_on_update,
          extend_on_fetch, expiration_length, clock, th, observe, refreshed,
          emptied, faults, calls, second>>

trees == <<data, expires_at, expires_at_inverse>>
config == <<extend_on_update, extend_on_fetch, expiration_length, observe>>

\* ------------------------------------------------------- names of trees
\* A name is a string, written as the sequence of the pieces it is made of;
\* no piece is the start of another, so two names are the same string
\* exactly when they are the same sequence.
Pieces == {"tree", "-expires-at", "-inverse"}
Names == UNION {[1..n -> Pieces] : n \in 1..MaxNameLen}
\* the name the first tree was built with (StructuredTree.1 of data)
TreeName == <<"tree">>
\* ExpiringTreeBuilder::build: the names of the three sled trees
DataOf(n) == n
ExpiresAtOf(n) == n \o <<"-expires-at">>
InverseOf(n) == n \o <<"-expires-at", "-inverse">>
CollectionsOf(n) == {DataOf(n), ExpiresAtOf(n), InverseOf(n)}
\* no second tree
NoSecond == [name |-> <<>>, db |-> <<>>]
\* db.open_tree(c): the tree of the Db under name c
Coll(c) ==
    IF c = DataOf(TreeName) THEN data
    ELSE IF c = ExpiresAtOf(TreeName) THEN expires_at
    ELSE IF c = InverseOf(TreeName) THEN expires_at_inverse
    ELSE second.db[c]
\* the tree under name c becomes tree, every other tree of the Db stays
CollPut(c, tree) ==
    /\ data' = IF c = DataOf(TreeName) THEN tree ELSE data
    /\ expires_at' = IF c = ExpiresAtOf(TreeName) THEN tree ELSE expires_at
    /\ expires_at_inverse' =
            IF c = InverseOf(TreeName) THEN tree ELSE expires_at_inverse
    /\ second' = IF c \in DOMAIN second.db
                 THEN [second EXCEPT !.db[c] = tree] ELSE second

NoRet == <<>>
\* ExpiringBatch::default()
EmptyBatch == [writes |-> <<>>, keys |-> {}, rest |-> {}]
\* no iterator
NoIter == [lo |-> None, hi |-> None, item |-> None]
Idle == [pc |-> "idle", op |-> "none", key |-> "none", old |-> None,
         new |-> None, f |-> "none", ret |-> NoRet, at |-> None,
         prev |-> None, cursor |-> None, batch |-> EmptyBatch, log |-> <<>>,
         it |-> NoIter, seen |-> None, runs |-> 0]

\* A tree opened on a fresh database, no operation running.
InitTree ==
    /\ data = EmptyTree
    /\ expires_at = EmptyTree
    /\ expires_at_inverse = EmptyTree
    /\ clock = 0
    /\ th = [t \in Threads |-> Idle]

\* ExpiringTreeBuilder: any setting of the two flags and of the length
Init ==
    /\ InitTree
    /\ extend_on_update \in BOOLEAN
    /\ extend_on_fetch \in BOOLEAN
    /\ expiration_length \in Lengths
    /\ observe = TRUE
    /\ refreshed = [k \in Keys |-> -1]
    /\ emptied = -1
    /\ faults = 0
    /\ calls = 0
    /\ second = NoSecond

\* ExpiringTreeBuilder with extend_on_update()
InitExtendOnUpdate ==
    /\ InitTree
    /\ extend_on_update = TRUE
    /\ extend_on_fetch \in BOOLEAN
    /\ expiration_length \in Lengths
    /\ observe = TRUE
    /\ refreshed = [k \in Keys |-> -1]
    /\ emptied = -1
    /\ faults = 0
    /\ calls = 0
    /\ second = NoSecond

\* the same, with the refreshes of each key counted
InitCounting ==
    /\ InitTree
    /\ extend_on_update = TRUE
    /\ extend_on_fetch \in BOOLEAN
    /\ expiration_length \in Lengths
    /\ observe = TRUE
    /\ refreshed = [k \in Keys |-> 0]
    /\ emptied = -1
    /\ faults = 0
    /\ calls = 0
    /\ second = NoSecond

\* both flags set and a length of one tick, for callers that run concurrently
InitConcurrent ==
    /\ InitTree
    /\ extend_on_update = TRUE
    /\ extend_on_fetch = TRUE
    /\ expiration_length = 1
    /\ observe = FALSE
    /\ refreshed = [k \in Keys |-> -1]
    /\ emptied = 0
    /\ faults = 0
    /\ calls = 0
    /\ second = NoSecond

\* extend_on_fetch left unset, for callers that do not fetch
InitNoFetch ==
    /\ InitTree
    /\ extend_on_update \in BOOLEAN
    /\ extend_on_fetch = FALSE
    /\ expiration_length \in Lengths
    /\ observe = TRUE
    /\ refreshed = [k \in Keys |-> -1]
    /\ emptied = -1
    /\ faults = 0
    /\ calls = 0
    /\ second = NoSecond

\* Faulty variant: the builder starts with extend_on_update set
InitDefaults_extends ==
    /\ InitTree
    /\ extend_on_update = TRUE
    /\ extend_on_fetch = FALSE
    /\ expiration_length = TwelveHours
    /\ observe = TRUE
    /\ refreshed = [k \in Keys |-> -1]
    /\ emptied = -1
    /\ faults = 0
    /\ calls = 0
    /\ second = NoSecond

\* ExpiringTreeBuilder::new and build(): neither flag set, twelve hours
InitDefaults ==
    /\ InitTree
    /\ extend_on_update = FALSE
    /\ extend_on_fetch = FALSE
    /\ expiration_length = TwelveHours
    /\ observe = TRUE
    /\ refreshed = [k \in Keys |-> -1]
    /\ emptied = -1
    /\ faults = 0
    /\ calls = 0
    /\ second = NoSecond

\* two ExpiringTrees built from one fresh Db with the same settings, the
\* second under any name but the first one's
InitTwoTrees ==
    /\ InitTree
    /\ extend_on_update = TRUE
    /\ extend_on_fetch \in BOOLEAN
    /\ expiration_length = 1
    /\ observe = FALSE
    /\ refreshed = [k \in Keys |-> -1]
    /\ emptied = -1
    /\ faults = 0
    /\ calls = 0
    /\ \E n \in Names \ {TreeName} :
        second = [name |-> n,
                  db |-> [c \in CollectionsOf(n) \ CollectionsOf(TreeName) |->
                            EmptyTree]]

\* sled will return errors; extend_on_fetch left unset
InitFault ==
    /\ InitTree
    /\ extend_on_update \in BOOLEAN
    /\ extend_on_fetch = FALSE
    /\ expiration_length \in Lengths
    /\ observe = TRUE
    /\ refreshed = [k \in Keys |-> -1]
    /\ emptied = -1
    /\ faults = MaxFaults
    /\ calls = 0
    /\ second = NoSecond

\* the same with extend_on_update()
InitFaultExtendOnUpdate ==
    /\ InitFault
    /\ extend_on_update = TRUE

\* bytes that were not written by this codec and do not decode
RawBytes == <<"raw">>
\* what a sled tree may hold under a key when it is opened: a value encoded
\* by this codec, or bytes written with another one
StoredBytes == {Encode(v).val : v \in Vals} \cup {RawBytes}
TreesOver(keys, bytes) == UNION {[S -> bytes] : S \in SUBSET keys}

\* A StructuredTree opened on a database that already holds entries under
\* its name, some of them written with another codec.
InitStructured ==
    /\ data \in TreesOver(Keys, StoredBytes)
    /\ expires_at = EmptyTree
    /\ expires_at_inverse = EmptyTree
    /\ clock = 0
    /\ th = [t \in Threads |-> Idle]
    /\ extend_on_update = FALSE
    /\ extend_on_fetch = FALSE
    /\ expiration_length = 0
    /\ observe = TRUE
    /\ refreshed = [k \in Keys |-> -1]
    /\ emptied = -1
    /\ faults = 0
    /\ calls = 0
    /\ second = NoSecond

\* An ExpiringTree built with extend_on_update() on a database whose
\* expires_at_inverse tree already holds buckets of another codec.
InitRawBuckets ==
    /\ data = EmptyTree
    /\ expires_at = EmptyTree
    /\ expires_at_inverse \in
            TreesOver({to_string(x) : x \in 0..MaxTimeConc}, {RawBytes})
    /\ clock = 0
    /\ th = [t \in Threads |-> Idle]
    /\ extend_on_update = TRUE
    /\ extend_on_fetch = FALSE
    /\ expiration_length \in Lengths
    /\ observe = TRUE
    /\ refreshed = [k \in Keys |-> -1]
    /\ emptied = -1
    /\ faults = 0
    /\ calls = 0
    /\ second = NoSecond

\* both flags set, the callers starting a finite number of operations on
\* a tree in which insert has stored both keys at time 0
InitCounted ==
    /\ clock = 0
    /\ th = [t \in Threads |-> Idle]
    /\ data = [k \in Keys |-> Encode("v1").val]
    /\ expires_at = [k \in Keys |-> Encode(1).val]
    /\ expires_at_inverse = TreeInsert(EmptyTree, to_string(1), Encode(Keys).val)
    /\ extend_on_update = TRUE
    /\ extend_on_fetch = TRUE
    /\ expiration_length = 1
    /\ observe = FALSE
    /\ refreshed = [k \in Keys |-> -1]
    /\ emptied = -1
    /\ faults = 0
    /\ calls = MaxCalls
    /\ second = NoSecond

\* ------------------------------------------------------- thread bookkeeping
\* let expires_at = now + self.expiration_length
new_expiry(t) == Unwrap(th[t].at) + expiration_length

\* thread t moves on with locals l
Step(t, l) == th' = [th EXCEPT ![t] = l]
\* the data step is behind: the arguments are kept only for an observer
Called(l, res, p) ==
    IF observe THEN [l EXCEPT !.ret = res, !.pc = p]
    ELSE [l EXCEPT !.op = "busy", !.old = None, !.new = None, !.pc = p]
\* the operation ends with result l.ret
Done(l) == IF observe THEN [l EXCEPT !.pc = "done"] ELSE Idle
\* the operation ends with error e
Failed(l, e) == Done([l EXCEPT !.ret = IF observe THEN e ELSE NoRet])
\* update_expires_at / remove_expires_at has returned Ok(()): apply_batch
\* goes on with its loop, the closure of a transaction goes on, next() of
\* an ExpiringIter yields its item, every other operation returns
AfterBookkeeping(l) ==
    IF l.op = "apply_batch" THEN [l EXCEPT !.pc = "batch_next"]
    ELSE IF l.op = "transaction" THEN [l EXCEPT !.pc = "tx"]
    ELSE IF l.op = "iter"
         THEN [l EXCEPT !.pc = "iter", !.it.item = None,
                        !.ret = Ok(Append(@.val, Unwrap(l.it.item)))]
    ELSE Done(l)

\* Option<HashSet<IVec>>, what the closures of the bucket updates are given
OptHashSet == {None} \cup {Some(hs) : hs \in SUBSET BatchKeys}

\* Faulty variant: the key is left in the bucket
drop_key_not(key) == [opt \in OptHashSet |-> opt]

\* Faulty variant: the emptied bucket is stored
drop_key_keep_empty(key) ==
    [opt \in OptHashSet |->
        IF IsNone(opt) THEN None ELSE Some(Unwrap(opt) \ {key})]

\* the closure of remove_expires_at and of the first bucket update of
\* update_expires_at: drop the key, delete the bucket when it becomes empty
drop_key(key) ==
    [opt \in OptHashSet |->
        IF IsNone(opt) THEN None
        ELSE LET hs == Unwrap(opt) \ {key} IN
             IF hs = {} THEN None ELSE Some(hs)]

\* the closure of the second bucket update of update_expires_at
add_key(key) ==
    [opt \in OptHashSet |->
        Some((IF IsNone(opt) THEN {} ELSE Unwrap(opt)) \cup {key})]

Bump(k) ==
    IF k \notin DOMAIN refreshed THEN refreshed
    ELSE [refreshed EXCEPT ![k] = IF @ >= 0 /\ @ < MaxRefresh THEN @ + 1 ELSE @]
Reset(k) ==
    IF k \notin DOMAIN refreshed THEN refreshed
    ELSE [refreshed EXCEPT ![k] = IF @ >= 0 THEN 0 ELSE @]
\* history, where recorded: the bucket s held key alone as a bucket update
\* dropped it
Emptying(key, s) ==
    IF /\ emptied = 0
       /\ s \in DOMAIN expires_at_inverse
       /\ Decode(expires_at_inverse[s]) = Ok({key})
    THEN 1 ELSE emptied

\* ----------------------------------------------------------------- actions
\* Utc::now() advances.
Tick(max) ==
    /\ clock < max
    /\ clock' = clock + 1
    /\ UNCHANGED <<trees, config, th, refreshed, emptied, faults, calls, second>>

\* A thread calls an operation of the ExpiringTree on one of the keys.
CallKeys(t, ops, vals, keys) ==
    /\ th[t].pc = "idle"
    /\ \E op \in ops, k \in keys \cup {"none"},
          old \in {None} \cup {Some(v) : v \in vals},
          new \in {None} \cup {Some(v) : v \in vals} :
        /\ op \in {"insert"} => IsNone(old) /\ IsSome(new)
        /\ op \in {"get", "remove"} => IsNone(old) /\ IsNone(new)
        /\ op \in {"expired"} => IsNone(old) /\ IsNone(new)
        /\ (op = "expired") <=> (k = "none")
        /\ Step(t, [Idle EXCEPT !.pc = IF op = "expired" THEN "expired" ELSE "data",
                                !.op = op, !.key = k, !.old = old, !.new = new])
    /\ UNCHANGED <<trees, config, clock, refreshed, emptied, faults, calls, second>>

CallOf(t, ops, vals) == CallKeys(t, ops, vals, Keys)

\* ExpiringTree::insert, its call of self.data.insert
insert(t) ==
    /\ th[t].pc = "data" /\ th[t].op = "insert"
    /\ LET r == StructuredTree_insert(data, th[t].key, Unwrap(th[t].new)) IN
        /\ data' = r.tree
        /\ Step(t, IF ~r.res.ok THEN Failed(th[t], r.res)
                   ELSE IF extend_on_update THEN Called(th[t], r.res, "now")
                   ELSE Done(Called(th[t], r.res, "done")))
    /\ UNCHANGED <<expires_at, expires_at_inverse, config, clock, refreshed, emptied, faults, calls, second>>

\* Faulty variant: a key whose expiry has passed is evicted by the fetch
get_evicts(t) ==
    /\ th[t].pc = "data" /\ th[t].op = "get"
    /\ LET gone == /\ th[t].key \in DOMAIN expires_at
                   /\ Decode(expires_at[th[t].key]).val < clock
           r == IF gone THEN [tree |-> TreeRemove(data, th[t].key), res |-> Ok(None)]
                ELSE StructuredTree_get(data, th[t].key)
       IN
        /\ data' = r.tree
        /\ Step(t, IF extend_on_fetch THEN Called(th[t], r.res, "now")
                   ELSE Done(Called(th[t], r.res, "done")))
    /\ UNCHANGED <<expires_at, expires_at_inverse, config, clock, refreshed, emptied, faults, calls, second>>

\* ExpiringTree::get, its call of self.data.get
get(t) ==
    /\ th[t].pc = "data" /\ th[t].op = "get"
    /\ LET r == StructuredTree_get(data, th[t].key) IN
        /\ data' = r.tree
        /\ Step(t, IF ~r.res.ok THEN Failed(th[t], r.res)
                   ELSE IF extend_on_fetch THEN Called(th[t], r.res, "now")
                   ELSE Done(Called(th[t], r.res, "done")))
    /\ UNCHANGED <<expires_at, expires_at_inverse, config, clock, refreshed, emptied, faults, calls, second>>

\* ExpiringTree::remove, its call of self.data.remove
remove(t) ==
    /\ th[t].pc = "data" /\ th[t].op = "remove"
    /\ LET r == StructuredTree_remove(data, th[t].key) IN
        /\ data' = r.tree
        /\ Step(t, IF ~r.res.ok THEN Failed(th[t], r.res)
                   ELSE Called(th[t], r.res, "remove_expires_at"))
    /\ UNCHANGED <<expires_at, expires_at_inverse, config, clock, refreshed, emptied, faults, calls, second>>

\* Faulty variant: the bookkeeping does not look at the outcome of the swap
compare_and_swap_ignores_success(t) ==
    /\ th[t].pc = "data" /\ th[t].op = "compare_and_swap"
    /\ LET to_delete == IsSome(th[t].old) /\ IsNone(th[t].new)
           to_update == IsSome(th[t].new)
           r == StructuredTree_compare_and_swap(data, th[t].key, th[t].old,
                                                th[t].new)
       IN
        /\ data' = r.tree
        /\ Step(t, IF to_delete THEN Called(th[t], r.res, "remove_expires_at")
                   ELSE IF to_update /\ extend_on_update
                        THEN Called(th[t], r.res, "now")
                   ELSE Done(Called(th[t], r.res, "done")))
    /\ UNCHANGED <<expires_at, expires_at_inverse, config, clock, refreshed, emptied, faults, calls, second>>

\* ExpiringTree::compare_and_swap, its call of self.data.compare_and_swap
compare_and_swap(t) ==
    /\ th[t].pc = "data" /\ th[t].op = "compare_and_swap"
    /\ LET to_delete == IsSome(th[t].old) /\ IsNone(th[t].new)
           to_update == IsSome(th[t].new)
           r == StructuredTree_compare_and_swap(data, th[t].key, th[t].old,
                                                th[t].new)
           success == r.res.ok /\ r.res.val.ok
       IN
        /\ data' = r.tree
        /\ Step(t, IF ~r.res.ok THEN Failed(th[t], r.res)
                   ELSE IF to_delete /\ success
                        THEN Called(th[t], r.res, "remove_expires_at")
                   ELSE IF to_update /\ success /\ extend_on_update
                        THEN Called(th[t], r.res, "now")
                   ELSE Done(Called(th[t], r.res, "done")))
    /\ UNCHANGED <<expires_at, expires_at_inverse, config, clock, refreshed, emptied, faults, calls, second>>

\* Option<V>, what a caller's closure is given and gives
OptVal == {None} \cup {Some(v) : v \in Vals}
\* the closures callers pass: |_| Some("v2"), |_| None, |o| o
Closures == {"store", "clear", "keep"}
Closure(f) ==
    [o \in OptVal |-> IF f = "store" THEN Some("v2")
                      ELSE IF f = "clear" THEN None ELSE o]

\* A thread calls update_and_fetch or fetch_and_update with a closure.
CallRmw(t) ==
    /\ th[t].pc = "idle"
    /\ \E op \in {"update_and_fetch", "fetch_and_update"}, k \in Keys,
          f \in Closures :
        Step(t, [Idle EXCEPT !.pc = "data", !.op = op, !.key = k, !.f = f])
    /\ UNCHANGED <<trees, config, clock, refreshed, emptied, faults, calls, second>>

\* A thread calls pop_min or pop_max.
CallPop(t) ==
    /\ th[t].pc = "idle"
    /\ \E op \in {"pop_min", "pop_max"} :
        Step(t, [Idle EXCEPT !.pc = "data", !.op = op])
    /\ UNCHANGED <<trees, config, clock, refreshed, emptied, faults, calls, second>>

\* ExpiringTree::update_and_fetch, its call of self.data.update_and_fetch
update_and_fetch(t) ==
    /\ th[t].pc = "data" /\ th[t].op = "update_and_fetch"
    /\ LET r == StructuredTree_update_and_fetch(data, th[t].key,
                                                Closure(th[t].f)) IN
        /\ data' = r.tree
        /\ Step(t, IF ~r.res.ok THEN Failed(th[t], r.res)
                   ELSE IF IsSome(r.res.val) /\ extend_on_update
                        THEN Called(th[t], r.res, "now")
                   ELSE Called(th[t], r.res, "remove_expires_at"))
    /\ UNCHANGED <<expires_at, expires_at_inverse, config, clock, refreshed, emptied, faults, calls, second>>

\* ExpiringTree::fetch_and_update, its call of self.data.fetch_and_update
fetch_and_update(t) ==
    /\ th[t].pc = "data" /\ th[t].op = "fetch_and_update"
    /\ LET r == StructuredTree_fetch_and_update(data, th[t].key,
                                                Closure(th[t].f)) IN
        /\ data' = r.tree
        /\ Step(t, IF ~r.res.ok THEN Failed(th[t], r.res)
                   ELSE IF IsSome(r.res.val) /\ extend_on_update
                        THEN Called(th[t], r.res, "now")
                   ELSE Called(th[t], r.res, "remove_expires_at"))
    /\ UNCHANGED <<expires_at, expires_at_inverse, config, clock, refreshed, emptied, faults, calls, second>>

\* what pop_min / pop_max do once self.data has popped: the popped key's
\* metadata is removed, an empty tree gives Ok(None)
Popped(l, res) ==
    IF ~res.ok THEN Failed(l, res)
    ELSE IF IsSome(res.val)
         THEN Called([l EXCEPT !.key = Unwrap(res.val)[1]], res,
                     "remove_expires_at")
    ELSE Done(Called(l, res, "done"))

\* ExpiringTree::pop_min, its call of self.data.pop_min
pop_min(t) ==
    /\ th[t].pc = "data" /\ th[t].op = "pop_min"
    /\ LET r == StructuredTree_pop_min(data) IN
        /\ data' = r.tree
        /\ Step(t, Popped(th[t], r.res))
    /\ UNCHANGED <<expires_at, expires_at_inverse, config, clock, refreshed, emptied, faults, calls, second>>

\* ExpiringTree::pop_max, its call of self.data.pop_max
pop_max(t) ==
    /\ th[t].pc = "data" /\ th[t].op = "pop_max"
    /\ LET r == StructuredTree_pop_max(data) IN
        /\ data' = r.tree
        /\ Step(t, Popped(th[t], r.res))
    /\ UNCHANGED <<expires_at, expires_at_inverse, config, clock, refreshed, emptied, faults, calls, second>>

\* A thread calls get_lt or get_gt with one of the keys.
CallNeighbour(t) ==
    /\ th[t].pc = "idle"
    /\ \E op \in {"get_lt", "get_gt"}, k \in Keys :
        Step(t, [Idle EXCEPT !.pc = "data", !.op = op, !.key = k])
    /\ UNCHANGED <<trees, config, clock, refreshed, emptied, faults, calls, second>>

\* what get_lt / get_gt do once self.data has answered: the entry found is
\* refreshed under extend_on_fetch, no entry gives Ok(None)
Found(l, res) ==
    IF ~res.ok THEN Failed(l, res)
    ELSE IF IsSome(res.val) /\ extend_on_fetch
         THEN Called([l EXCEPT !.key = Unwrap(res.val)[1]], res, "now")
    ELSE Done(Called(l, res, "done"))

\* ExpiringTree::get_lt, its call of self.data.get_lt
get_lt(t) ==
    /\ th[t].pc = "data" /\ th[t].op = "get_lt"
    /\ Step(t, Found(th[t], StructuredTree_get_lt(data, th[t].key).res))
    /\ UNCHANGED <<trees, config, clock, refreshed, emptied, faults, calls, second>>

\* ExpiringTree::get_gt, its call of self.data.get_gt
get_gt(t) ==
    /\ th[t].pc = "data" /\ th[t].op = "get_gt"
    /\ Step(t, Found(th[t], StructuredTree_get_gt(data, th[t].key).res))
    /\ UNCHANGED <<trees, config, clock, refreshed, emptied, faults, calls, second>>

\* ------------------------------------------- operations of the second tree
\* The values of the second tree are timestamps (an ExpiringTree of
\* DateTime<Utc> with the codec of the first tree), so that every entry of
\* the Db decodes wherever it is read.
SecondVals == 0..MaxTimeConc

\* A thread calls insert, get or remove of the second tree.
CallSecond(t) ==
    /\ th[t].pc = "idle"
    /\ \E op \in {"insert", "get", "remove"}, k \in Keys, v \in SecondVals :
        /\ op # "insert" => v = 0
        /\ Step(t, [Idle EXCEPT !.pc = "second_data", !.op = op, !.key = k,
                                !.new = IF op = "insert" THEN Some(v) ELSE None])
    /\ UNCHANGED <<trees, config, clock, refreshed, emptied, faults, calls, second>>

\* insert / get / remove of the second tree: the call of its self.data
second_data(t) ==
    /\ th[t].pc = "second_data"
    /\ \E r \in {IF th[t].op = "insert"
                  THEN StructuredTree_insert(Coll(DataOf(second.name)),
                                             th[t].key, Unwrap(th[t].new))
                  ELSE IF th[t].op = "remove"
                  THEN StructuredTree_remove(Coll(DataOf(second.name)), th[t].key)
                  ELSE StructuredTree_get(Coll(DataOf(second.name)), th[t].key)} :
        /\ CollPut(DataOf(second.name), r.tree)
        /\ Step(t, IF ~r.res.ok THEN Failed(th[t], r.res)
                   ELSE IF th[t].op = "remove"
                        THEN Called(th[t], r.res, "second_remove_expires_at")
                   ELSE IF (th[t].op = "insert" /\ extend_on_update)
                            \/ (th[t].op = "get" /\ extend_on_fetch)
                        THEN Called([th[t] EXCEPT !.at = Some(clock)], r.res,
                                    "second_update_expires_at")
                   ELSE Done(Called(th[t], r.res, "done")))
    /\ UNCHANGED <<config, clock, refreshed, emptied, faults, calls>>

\* update_expires_at of the second tree: self.expires_at.insert(key, expires_at)
second_update_expires_at(t) ==
    /\ th[t].pc = "second_update_expires_at"
    /\ \E r \in {StructuredTree_insert(Coll(ExpiresAtOf(second.name)),
                                        th[t].key, new_expiry(t))} :
        /\ CollPut(ExpiresAtOf(second.name), r.tree)
        /\ Step(t, IF ~r.res.ok THEN Failed(th[t], r.res)
                   ELSE IF IsSome(r.res.val)
                        THEN [th[t] EXCEPT !.prev = r.res.val,
                                           !.pc = "second_update_prev"]
                   ELSE [th[t] EXCEPT !.pc = "second_update_new"])
    /\ UNCHANGED <<config, clock, refreshed, emptied, faults, calls>>

\* remove_expires_at of the second tree: self.expires_at.remove(key)
second_remove_expires_at(t) ==
    /\ th[t].pc = "second_remove_expires_at"
    /\ \E r \in {StructuredTree_remove(Coll(ExpiresAtOf(second.name)),
                                        th[t].key)} :
        /\ CollPut(ExpiresAtOf(second.name), r.tree)
        /\ Step(t, IF ~r.res.ok THEN Failed(th[t], r.res)
                   ELSE IF IsSome(r.res.val)
                        THEN [th[t] EXCEPT !.prev = r.res.val,
                                           !.pc = "second_remove_prev"]
                   ELSE Done(th[t]))
    /\ UNCHANGED <<config, clock, refreshed, emptied, faults, calls>>

\* the bucket update of the second tree that drops the key from prev's
\* bucket, in update_expires_at and in remove_expires_at
second_update_prev(t) ==
    /\ th[t].pc \in {"second_update_prev", "second_remove_prev"}
    /\ \E r \in {StructuredTree_update_and_fetch(Coll(InverseOf(second.name)),
                    to_string(Unwrap(th[t].prev)), drop_key(th[t].key))} :
        /\ CollPut(InverseOf(second.name), r.tree)
        /\ Step(t, IF ~r.res.ok THEN Failed(th[t], r.res)
                   ELSE IF th[t].pc = "second_update_prev"
                        THEN [th[t] EXCEPT !.prev = None,
                                           !.pc = "second_update_new"]
                   ELSE Done(th[t]))
    /\ UNCHANGED <<config, clock, refreshed, emptied, faults, calls>>

\* update_expires_at of the second tree: the bucket update that adds the key
second_update_new(t) ==
    /\ th[t].pc = "second_update_new"
    /\ \E r \in {StructuredTree_update_and_fetch(Coll(InverseOf(second.name)),
                    to_string(new_expiry(t)), add_key(th[t].key))} :
        /\ CollPut(InverseOf(second.name), r.tree)
        /\ Step(t, IF ~r.res.ok THEN Failed(th[t], r.res) ELSE Done(th[t]))
    /\ UNCHANGED <<config, clock, refreshed, emptied, faults, calls>>

\* ----------------------------------------- operations that only read data
QueryOps == {"contains_key", "len", "is_empty", "name", "flush"}

\* A thread calls contains_key with one of the keys, or len, is_empty, name
\* or flush.
CallQuery(t) ==
    /\ th[t].pc = "idle"
    /\ \E op \in QueryOps, k \in Keys \cup {"none"} :
        /\ (op = "contains_key") <=> (k # "none")
        /\ Step(t, [Idle EXCEPT !.pc = "data", !.op = op, !.key = k])
    /\ UNCHANGED <<trees, config, clock, refreshed, emptied, faults, calls, second>>

\* Faulty variant: contains_key extends the expiry as get does
contains_key_refreshes(t) ==
    /\ th[t].pc = "data" /\ th[t].op = "contains_key"
    /\ Step(t, IF extend_on_fetch
               THEN Called(th[t], Ok(th[t].key \in DOMAIN data), "now")
               ELSE Done(Called(th[t], Ok(th[t].key \in DOMAIN data), "done")))
    /\ UNCHANGED <<trees, config, clock, refreshed, emptied, faults, calls, second>>

\* ExpiringTree::contains_key: self.data.contains_key(key)
contains_key(t) ==
    /\ th[t].pc = "data" /\ th[t].op = "contains_key"
    /\ Step(t, Done(Called(th[t], Ok(th[t].key \in DOMAIN data), "done")))
    /\ UNCHANGED <<trees, config, clock, refreshed, emptied, faults, calls, second>>

\* ExpiringTree::len: self.data.len()
len(t) ==
    /\ th[t].pc = "data" /\ th[t].op = "len"
    /\ Step(t, Done(Called(th[t], Ok(Cardinality(DOMAIN data)), "done")))
    /\ UNCHANGED <<trees, config, clock, refreshed, emptied, faults, calls, second>>

\* ExpiringTree::is_empty: self.data.is_empty()
is_empty(t) ==
    /\ th[t].pc = "data" /\ th[t].op = "is_empty"
    /\ Step(t, Done(Called(th[t], Ok(DOMAIN data = {}), "done")))
    /\ UNCHANGED <<trees, config, clock, refreshed, emptied, faults, calls, second>>

\* ExpiringTree::name: self.data.name()
name(t) ==
    /\ th[t].pc = "data" /\ th[t].op = "name"
    /\ Step(t, Done(Called(th[t], Ok(TreeName), "done")))
    /\ UNCHANGED <<trees, config, clock, refreshed, emptied, faults, calls, second>>

\* ExpiringTree::flush: self.data.flush()?
flush(t) ==
    /\ th[t].pc = "data" /\ th[t].op = "flush"
    /\ Step(t, Called(th[t], Ok("unit"), "flush_expires_at"))
    /\ UNCHANGED <<trees, config, clock, refreshed, emptied, faults, calls, second>>

\* flush: self.expires_at.flush()?
flush_expires_at(t) ==
    /\ th[t].pc = "flush_expires_at"
    /\ Step(t, [th[t] EXCEPT !.pc = "flush_expires_at_inverse"])
    /\ UNCHANGED <<trees, config, clock, refreshed, emptied, faults, calls, second>>

\* flush: self.expires_at_inverse.flush()?; Ok(())
flush_expires_at_inverse(t) ==
    /\ th[t].pc = "flush_expires_at_inverse"
    /\ Step(t, Done(th[t]))
    /\ UNCHANGED <<trees, config, clock, refreshed, emptied, faults, calls, second>>

\* ------------------------------------------- callers of a StructuredTree
\* A thread calls an operation of the StructuredTree `data` itself.
CallStructured(t) ==
    /\ th[t].pc = "idle"
    /\ \E op \in {"get", "insert", "remove", "compare_and_swap",
                   "update_and_fetch", "fetch_and_update"},
          k \in Keys, old \in OptVal, new \in OptVal, f \in Closures \cup {"none"} :
        /\ op = "insert" => IsNone(old) /\ IsSome(new)
        /\ op \in {"get", "remove", "update_and_fetch", "fetch_and_update"} =>
                IsNone(old) /\ IsNone(new)
        /\ (op \in {"update_and_fetch", "fetch_and_update"}) <=> (f # "none")
        /\ Step(t, [Idle EXCEPT !.pc = "structured", !.op = op, !.key = k,
                                !.old = old, !.new = new, !.f = f])
    /\ UNCHANGED <<trees, config, clock, refreshed, emptied, faults, calls, second>>

\* the call returns r.res and leaves the tree as r.tree
Structured(t, r) ==
    /\ data' = r.tree
    /\ Step(t, [th[t] EXCEPT !.ret = r.res, !.pc = "done"])
    /\ UNCHANGED <<expires_at, expires_at_inverse, config, clock, refreshed, emptied, faults, calls, second>>

structured_get(t) ==
    /\ th[t].pc = "structured" /\ th[t].op = "get"
    /\ Structured(t, StructuredTree_get(data, th[t].key))

structured_insert(t) ==
    /\ th[t].pc = "structured" /\ th[t].op = "insert"
    /\ Structured(t, StructuredTree_insert(data, th[t].key, Unwrap(th[t].new)))

structured_remove(t) ==
    /\ th[t].pc = "structured" /\ th[t].op = "remove"
    /\ Structured(t, StructuredTree_remove(data, th[t].key))

structured_compare_and_swap(t) ==
    /\ th[t].pc = "structured" /\ th[t].op = "compare_and_swap"
    /\ Structured(t, StructuredTree_compare_and_swap(data, th[t].key,
                                                     th[t].old, th[t].new))

structured_update_and_fetch(t) ==
    /\ th[t].pc = "structured" /\ th[t].op = "update_and_fetch"
    /\ Structured(t, StructuredTree_update_and_fetch(data, th[t].key,
                                                     Closure(th[t].f)))

structured_fetch_and_update(t) ==
    /\ th[t].pc = "structured" /\ th[t].op = "fetch_and_update"
    /\ Structured(t, StructuredTree_fetch_and_update(data, th[t].key,
                                                     Closure(th[t].f)))

\* ----------------------------------------------------------- ExpiringIter
\* a bound of a range of keys: unbounded, or a key, included or excluded
Bounds == {None} \cup {Some(<<k, incl>>) : k \in Keys, incl \in BOOLEAN}
AboveBound(lo, k) ==
    \/ IsNone(lo)
    \/ KeyLess(Unwrap(lo)[1], k)
    \/ Unwrap(lo)[2] /\ k = Unwrap(lo)[1]
BelowBound(hi, k) ==
    \/ IsNone(hi)
    \/ KeyLess(k, Unwrap(hi)[1])
    \/ Unwrap(hi)[2] /\ k = Unwrap(hi)[1]
\* the keys of the tree that the sled::Iter has still to visit
IterKeys(tree, it) ==
    {k \in DOMAIN tree : AboveBound(it.lo, k) /\ BelowBound(it.hi, k)}
LeastOf(S) == CHOOSE k \in S : \A x \in S \ {k} : KeyLess(k, x)
GreatestOf(S) == CHOOSE k \in S : \A x \in S \ {k} : KeyLess(x, k)

\* what StructuredIter yields for entry k: the key and the decoded value, or
\* the decode error
StructuredIter_item(tree, k) ==
    LET d == Decode(tree[k]) IN
    IF d.ok THEN Ok(<<k, d.val>>) ELSE d

\* StructuredIter::next: the least entry within the bounds, read from the
\* tree as it is now; the lower bound moves past it
StructuredIter_next(tree, it) ==
    IF IterKeys(tree, it) = {} THEN [it |-> it, item |-> None]
    ELSE LET k == LeastOf(IterKeys(tree, it)) IN
         [it |-> [it EXCEPT !.lo = Some(<<k, FALSE>>)],
          item |-> Some(StructuredIter_item(tree, k))]

\* StructuredIter::next_back: the greatest entry within the bounds
StructuredIter_next_back(tree, it) ==
    IF IterKeys(tree, it) = {} THEN [it |-> it, item |-> None]
    ELSE LET k == GreatestOf(IterKeys(tree, it)) IN
         [it |-> [it EXCEPT !.hi = Some(<<k, FALSE>>)],
          item |-> Some(StructuredIter_item(tree, k))]

\* A thread calls iter(), range(lo, hi) or scan_prefix(): an ExpiringIter
\* over self.data with these bounds, nothing read yet.
CallIter(t) ==
    /\ th[t].pc = "idle"
    /\ \E lo \in Bounds, hi \in Bounds :
        Step(t, [Idle EXCEPT !.pc = "iter", !.op = "iter", !.ret = Ok(<<>>),
                             !.it = [lo |-> lo, hi |-> hi, item |-> None]])
    /\ UNCHANGED <<trees, config, clock, refreshed, emptied, faults, calls, second>>

\* what ExpiringIter does with the item r that self.0 gives: the end of the
\* iterator and an error are passed on, the key of an entry is refreshed
\* under extend_on_fetch before the entry is yielded
Yielding(l, r) ==
    IF IsNone(r.item) THEN Done(l)
    ELSE IF ~Unwrap(r.item).ok
         THEN [l EXCEPT !.it = r.it, !.ret = Ok(Append(@.val, Unwrap(r.item)))]
    ELSE IF extend_on_fetch
         THEN [l EXCEPT !.it = [r.it EXCEPT !.item = r.item],
                        !.key = Unwrap(r.item).val[1], !.at = None,
                        !.prev = None, !.pc = "now"]
    ELSE [l EXCEPT !.it = r.it, !.ret = Ok(Append(@.val, Unwrap(r.item)))]

\* Faulty variant: next() also gives the entries it has not reached the
\* expiry of this moment
iter_next_refreshes_ahead(t) ==
    /\ th[t].pc = "iter"
    /\ LET r == StructuredIter_next(data, th[t].it) IN
        /\ Step(t, Yielding(th[t], r))
        /\ expires_at' =
                [k \in DOMAIN expires_at \cup
                        (IF extend_on_fetch THEN IterKeys(data, r.it) ELSE {}) |->
                    IF extend_on_fetch /\ k \in IterKeys(data, r.it)
                    THEN Encode(clock + expiration_length).val
                    ELSE expires_at[k]]
    /\ UNCHANGED <<data, expires_at_inverse, config, clock, refreshed, emptied, faults, calls, second>>

\* ExpiringIter::next, its call of self.0.next()
iter_next(t) ==
    /\ th[t].pc = "iter"
    /\ Step(t, Yielding(th[t], StructuredIter_next(data, th[t].it)))
    /\ UNCHANGED <<trees, config, clock, refreshed, emptied, faults, calls, second>>

\* ExpiringIter::next_back, its call of self.0.next_back()
iter_next_back(t) ==
    /\ th[t].pc = "iter"
    /\ Step(t, Yielding(th[t], StructuredIter_next_back(data, th[t].it)))
    /\ UNCHANGED <<trees, config, clock, refreshed, emptied, faults, calls, second>>

\* the caller drops the iterator without consuming the rest
iter_drop(t) ==
    /\ th[t].pc = "iter"
    /\ Step(t, Done(th[t]))
    /\ UNCHANGED <<trees, config, clock, refreshed, emptied, faults, calls, second>>

\* ------------------------------------------------------------------ clear
\* A thread calls clear().
CallClear(t) ==
    /\ th[t].pc = "idle"
    /\ Step(t, [Idle EXCEPT !.pc = "clear", !.op = "clear"])
    /\ UNCHANGED <<trees, config, clock, refreshed, emptied, faults, calls, second>>

\* sled::Tree::clear, which is not atomic: one step removes the first entry
\* that its iterator over the tree finds
TreeClearStep(tree, first) == TreeRemove(tree, first)

\* the first bucket of expires_at_inverse in sled's order
MinBucket(tree) ==
    CHOOSE s \in DOMAIN tree : \A x \in DOMAIN tree \ {s} : BytesLess(s, x)

\* ExpiringTree::clear: self.data.clear()?
clear(t) ==
    /\ th[t].pc = "clear"
    /\ IF DOMAIN data = {}
       THEN Step(t, [th[t] EXCEPT !.pc = "clear_expires_at"]) /\ UNCHANGED data
       ELSE data' = TreeClearStep(data, MinKey(data)) /\ UNCHANGED th
    /\ UNCHANGED <<expires_at, expires_at_inverse, config, clock, refreshed, emptied, faults, calls, second>>

\* ExpiringTree::clear: self.expires_at.clear()?
clear_expires_at(t) ==
    /\ th[t].pc = "clear_expires_at"
    /\ IF DOMAIN expires_at = {}
       THEN /\ Step(t, [th[t] EXCEPT !.pc = "clear_expires_at_inverse"])
            /\ UNCHANGED expires_at
       ELSE /\ expires_at' = TreeClearStep(expires_at, MinKey(expires_at))
            /\ UNCHANGED th
    /\ UNCHANGED <<data, expires_at_inverse, config, clock, refreshed, emptied, faults, calls, second>>

\* Faulty variant: clear returns without clearing expires_at_inverse
clear_expires_at_inverse_skipped(t) ==
    /\ th[t].pc = "clear_expires_at_inverse"
    /\ Step(t, Done([th[t] EXCEPT !.ret = Ok("unit")]))
    /\ UNCHANGED <<trees, config, clock, refreshed, emptied, faults, calls, second>>

\* ExpiringTree::clear: self.expires_at_inverse.clear()?; Ok(())
clear_expires_at_inverse(t) ==
    /\ th[t].pc = "clear_expires_at_inverse"
    /\ IF DOMAIN expires_at_inverse = {}
       THEN /\ Step(t, Done([th[t] EXCEPT !.ret = Ok("unit")]))
            /\ UNCHANGED expires_at_inverse
       ELSE /\ expires_at_inverse' =
                    TreeClearStep(expires_at_inverse, MinBucket(expires_at_inverse))
            /\ UNCHANGED th
    /\ UNCHANGED <<data, expires_at, config, clock, refreshed, emptied, faults, calls, second>>

\* --------------------------------------------------------- ExpiringBatch
\* Faulty variant: remove leaves the key marked for refresh
ExpiringBatch_remove_keeps_mark(b, k) ==
    [b EXCEPT !.writes = TreeInsert(@, k, None)]

\* a value that F, the codec of the data tree, does not encode
\* (bincode::serialize, serde_cbor::to_vec and serde_json::to_vec return an
\* error for some values)
Unencodable == "unencodable"

\* F::encode of a value of the data tree
EncodeValue(v) == IF v = Unencodable THEN Err("encode") ELSE Encode(v)

\* ExpiringBatch::insert: the key is marked, then StructuredBatch::insert
\* encodes the value and records the write
ExpiringBatch_insert(b, k, value) ==
    LET v == EncodeValue(value)
        marked == [b EXCEPT !.keys = @ \cup {k}]
    IN  IF ~v.ok THEN [batch |-> marked, res |-> v]
        ELSE [batch |-> [marked EXCEPT !.writes = TreeInsert(@, k, Some(v.val))],
              res |-> Ok("unit")]

\* ExpiringBatch::remove: the key is unmarked and the removal recorded
ExpiringBatch_remove(b, k) ==
    [b EXCEPT !.keys = @ \ {k}, !.writes = TreeInsert(@, k, None)]

\* the caller records an insert in the batch it is building
batch_insert(t) ==
    /\ th[t].pc = "idle"
    /\ Len(th[t].log) < MaxBatch
    /\ \E k \in BatchKeys :
        LET r == ExpiringBatch_insert(th[t].batch, k, "v2") IN
        Step(t, [th[t] EXCEPT !.batch = r.batch,
                              !.log = Append(@, <<"insert", k>>)])
    /\ UNCHANGED <<trees, config, clock, refreshed, emptied, faults, calls, second>>

\* the caller records an insert of a value that may not encode; the log
\* keeps whether the insert returned Ok(()) or the encode error
batch_insert_any(t) ==
    /\ th[t].pc = "idle"
    /\ Len(th[t].log) < MaxBatch
    /\ \E k \in Keys, v \in {"v2", Unencodable} :
        LET r == ExpiringBatch_insert(th[t].batch, k, v) IN
        Step(t, [th[t] EXCEPT !.batch = r.batch,
                              !.log = Append(@, <<IF r.res.ok THEN "insert"
                                                  ELSE "failed", k>>)])
    /\ UNCHANGED <<trees, config, clock, refreshed, emptied, faults, calls, second>>

\* the caller records a removal of one of Keys in the batch it is building
batch_remove_any(t) ==
    /\ th[t].pc = "idle"
    /\ Len(th[t].log) < MaxBatch
    /\ \E k \in Keys :
        Step(t, [th[t] EXCEPT !.batch = ExpiringBatch_remove(@, k),
                              !.log = Append(@, <<"remove", k>>)])
    /\ UNCHANGED <<trees, config, clock, refreshed, emptied, faults, calls, second>>

\* A thread calls apply_batch with the batch it has built.
CallBuilt(t) ==
    /\ th[t].pc = "idle"
    /\ th[t].log # <<>>
    /\ Step(t, [th[t] EXCEPT !.pc = "data", !.op = "apply_batch"])
    /\ UNCHANGED <<trees, config, clock, refreshed, emptied, faults, calls, second>>

\* the caller records a removal in the batch it is building
batch_remove(t) ==
    /\ th[t].pc = "idle"
    /\ Len(th[t].log) < MaxBatch
    /\ \E k \in BatchKeys :
        Step(t, [th[t] EXCEPT !.batch = ExpiringBatch_remove(@, k),
                              !.log = Append(@, <<"remove", k>>)])
    /\ UNCHANGED <<trees, config, clock, refreshed, emptied, faults, calls, second>>

\* the batch that records w[k] ("insert", "remove" or nothing) for each key
RECURSIVE BatchOf(_, _, _)
BatchOf(b, ks, w) ==
    IF ks = {} THEN b
    ELSE LET k == CHOOSE x \in ks : TRUE
             nb == IF w[k] = "insert" THEN ExpiringBatch_insert(b, k, "v2").batch
                   ELSE IF w[k] = "remove" THEN ExpiringBatch_remove(b, k)
                   ELSE b
         IN  BatchOf(nb, ks \ {k}, w)

\* A thread calls apply_batch with a batch it has built over some keys.
CallBatchKeys(t, keys) ==
    /\ th[t].pc = "idle"
    /\ \E w \in [keys -> {"insert", "remove", "skip"}] :
        Step(t, [Idle EXCEPT !.pc = "data", !.op = "apply_batch",
                             !.batch = BatchOf(EmptyBatch, keys, w)])
    /\ UNCHANGED <<trees, config, clock, refreshed, emptied, faults, calls, second>>

CallBatch(t) == CallBatchKeys(t, BatchKeys)

\* sled::Tree::apply_batch: every write of the batch in one atomic step
TreeApplyBatch(tree, writes) ==
    [k \in {x \in (DOMAIN tree) \cup (DOMAIN writes) :
                x \in DOMAIN writes => IsSome(writes[x])} |->
        IF k \in DOMAIN writes THEN Unwrap(writes[k]) ELSE tree[k]]

StructuredTree_apply_batch(tree, writes) ==
    [tree |-> TreeApplyBatch(tree, writes), res |-> Ok("unit")]

\* ExpiringTree::apply_batch: let keys = batch.1;
\* self.data.apply_batch(batch.0)
apply_batch(t) ==
    /\ th[t].pc = "data" /\ th[t].op = "apply_batch"
    /\ LET r == StructuredTree_apply_batch(data, th[t].batch.writes)
           l == [th[t] EXCEPT !.batch.rest = th[t].batch.keys]
       IN
        /\ data' = r.tree
        /\ Step(t, IF ~r.res.ok THEN Failed(th[t], r.res)
                   ELSE IF extend_on_update THEN Called(l, r.res, "batch_now")
                   ELSE Done(Called(l, r.res, "done")))
    /\ UNCHANGED <<expires_at, expires_at_inverse, config, clock, refreshed, emptied, faults, calls, second>>

\* apply_batch: let now = Utc::now()
batch_now(t) ==
    /\ th[t].pc = "batch_now"
    /\ Step(t, [th[t] EXCEPT !.at = Some(clock), !.pc = "batch_next"])
    /\ UNCHANGED <<trees, config, clock, refreshed, emptied, faults, calls, second>>

\* Faulty variant: the loop ends after the first key
batch_next_stops(t) ==
    /\ th[t].pc = "batch_next"
    /\ IF th[t].batch.rest = {} \/ th[t].batch.rest # th[t].batch.keys
       THEN Step(t, Done(th[t]))
       ELSE \E k \in th[t].batch.rest :
                Step(t, [th[t] EXCEPT !.key = k, !.batch.rest = @ \ {k},
                                      !.prev = None, !.pc = "update_expires_at"])
    /\ UNCHANGED <<trees, config, clock, refreshed, emptied, faults, calls, second>>

\* apply_batch: for key in keys { self.update_expires_at(key, now)? }, the
\* keys of the HashSet in any order
batch_next(t) ==
    /\ th[t].pc = "batch_next"
    /\ IF th[t].batch.rest = {}
       THEN Step(t, Done(th[t]))
       ELSE \E k \in th[t].batch.rest :
                Step(t, [th[t] EXCEPT !.key = k, !.batch.rest = @ \ {k},
                                      !.prev = None, !.pc = "update_expires_at"])
    /\ UNCHANGED <<trees, config, clock, refreshed, emptied, faults, calls, second>>

\* ------------------------------------------------------------ transaction
\* ExpiringTree::transaction: self.data.transaction(..) runs the closure on
\* an ExpiringTransactionalTree; the writes of the closure are kept in the
\* transaction (th[t].batch.writes) until it commits.
CallTx(t) ==
    /\ th[t].pc = "idle"
    /\ Step(t, [Idle EXCEPT !.pc = "tx", !.op = "transaction"])
    /\ UNCHANGED <<trees, config, clock, refreshed, emptied, faults, calls, second>>

\* ExpiringTransactionalTree::insert: self.0.insert(k, value) writes to the
\* transaction, then update_expires_at runs on the ExpiringTree itself
tx_insert(t) ==
    /\ th[t].pc = "tx"
    /\ Len(th[t].log) < MaxTxOps
    /\ \E k \in Keys :
        LET v == Encode("v2")
            l == [th[t] EXCEPT !.key = k, !.at = None, !.prev = None,
                               !.batch.writes = TreeInsert(@, k, Some(v.val)),
                               !.log = Append(@, <<"insert", k>>)]
        IN  Step(t, IF extend_on_update THEN [l EXCEPT !.pc = "now"] ELSE l)
    /\ UNCHANGED <<trees, config, clock, refreshed, emptied, faults, calls, second>>

\* ExpiringTransactionalTree::remove: self.0.remove(k) writes to the
\* transaction, then remove_expires_at runs on the ExpiringTree itself
tx_remove(t) ==
    /\ th[t].pc = "tx"
    /\ Len(th[t].log) < MaxTxOps
    /\ \E k \in Keys :
        Step(t, [th[t] EXCEPT !.key = k, !.at = None, !.prev = None,
                              !.batch.writes = TreeInsert(@, k, None),
                              !.log = Append(@, <<"remove", k>>),
                              !.pc = "remove_expires_at"])
    /\ UNCHANGED <<trees, config, clock, refreshed, emptied, faults, calls, second>>

\* the closure returns Ok: sled applies the writes of the transaction to
\* data in one atomic step
tx_commit(t) ==
    /\ th[t].pc = "tx"
    /\ data' = TreeApplyBatch(data, th[t].batch.writes)
    /\ Step(t, Done([th[t] EXCEPT !.ret = Ok("committed")]))
    /\ UNCHANGED <<expires_at, expires_at_inverse, config, clock, refreshed, emptied, faults, calls, second>>

\* Faulty variant: an abort also takes back the bookkeeping of the closure
tx_abort_rolls_back(t) ==
    /\ th[t].pc = "tx"
    /\ expires_at' = [k \in DOMAIN expires_at \ DOMAIN th[t].batch.writes |->
                            expires_at[k]]
    /\ Step(t, Done([th[t] EXCEPT !.ret = Err("abort")]))
    /\ UNCHANGED <<data, expires_at_inverse, config, clock, refreshed, emptied, faults, calls, second>>

\* the closure aborts: sled drops the writes of the transaction
tx_abort(t) ==
    /\ th[t].pc = "tx"
    /\ Step(t, Done([th[t] EXCEPT !.ret = Err("abort")]))
    /\ UNCHANGED <<trees, config, clock, refreshed, emptied, faults, calls, second>>

\* Faulty variant: a conflict also takes back the forward entries of the
\* keys the closure has written
tx_conflict_rolls_back(t) ==
    /\ th[t].pc = "tx"
    /\ th[t].runs < MaxReruns
    /\ expires_at' = [k \in DOMAIN expires_at \ DOMAIN th[t].batch.writes |->
                            expires_at[k]]
    /\ Step(t, [th[t] EXCEPT !.batch = EmptyBatch, !.log = <<>>, !.at = None,
                             !.prev = None, !.runs = @ + 1])
    /\ UNCHANGED <<data, expires_at_inverse, config, clock, refreshed, emptied, faults, calls, second>>

\* the engine finds a conflict: the writes of the transaction are dropped and
\* the closure runs again from its start; what its bookkeeping has written
\* to expires_at and expires_at_inverse stays
tx_conflict(t) ==
    /\ th[t].pc = "tx"
    /\ th[t].runs < MaxReruns
    /\ Step(t, [th[t] EXCEPT !.batch = EmptyBatch, !.log = <<>>, !.at = None,
                             !.prev = None, !.runs = @ + 1])
    /\ UNCHANGED <<trees, config, clock, refreshed, emptied, faults, calls, second>>

\* ------------------------------------------------------------ sled errors
\* the positions at which an operation calls into a sled tree
SledCalls ==
    {"data", "update_expires_at", "update_prev", "update_new",
     "remove_expires_at", "remove_prev"}

\* Faulty variant: an error also drops the forward entry of the key
sled_error_drops_forward(t) ==
    /\ faults > 0
    /\ th[t].pc \in SledCalls
    /\ faults' = faults - 1
    /\ expires_at' = TreeRemove(expires_at, th[t].key)
    /\ Step(t, Failed(th[t], Err("sled")))
    /\ UNCHANGED <<data, expires_at_inverse, config, clock, refreshed, emptied, calls, second>>

\* Faulty variant: an error also takes back the write to data
sled_error_undoes_data(t) ==
    /\ faults > 0
    /\ th[t].pc \in SledCalls
    /\ faults' = faults - 1
    /\ data' = TreeRemove(data, th[t].key)
    /\ Step(t, Failed(th[t], Err("sled")))
    /\ UNCHANGED <<expires_at, expires_at_inverse, config, clock, refreshed, emptied, calls, second>>

\* The call into sled that the thread is about to make returns an error and
\* leaves its tree as it was; the `?` after the call returns the error as
\* the result of the whole operation.
sled_error(t) ==
    /\ faults > 0
    /\ th[t].pc \in SledCalls
    /\ faults' = faults - 1
    /\ Step(t, Failed(th[t], Err("sled")))
    /\ UNCHANGED <<trees, config, clock, refreshed, emptied, calls, second>>

\* the Utc::now() argument of update_expires_at
utc_now(t) ==
    /\ th[t].pc = "now"
    /\ Step(t, [th[t] EXCEPT !.at = Some(clock), !.pc = "update_expires_at"])
    /\ UNCHANGED <<trees, config, clock, refreshed, emptied, faults, calls, second>>

\* Faulty variant: the previous forward entry is ignored
update_expires_at_forgets_prev(t) ==
    /\ th[t].pc = "update_expires_at"
    /\ LET r == StructuredTree_insert(expires_at, th[t].key, new_expiry(t)) IN
        /\ expires_at' = r.tree
        /\ Step(t, [th[t] EXCEPT !.pc = "update_new"])
    /\ UNCHANGED <<data, expires_at_inverse, config, clock, refreshed, emptied, faults, calls, second>>

\* update_expires_at: self.expires_at.insert(key, expires_at)
update_expires_at(t) ==
    /\ th[t].pc = "update_expires_at"
    /\ LET r == StructuredTree_insert(expires_at, th[t].key, new_expiry(t)) IN
        /\ expires_at' = r.tree
        /\ Step(t, IF ~r.res.ok THEN Failed(th[t], r.res)
                   ELSE [th[t] EXCEPT !.prev = r.res.val,
                                      !.pc = IF IsSome(r.res.val)
                                             THEN "update_prev" ELSE "update_new"])
    /\ UNCHANGED <<data, expires_at_inverse, config, clock, refreshed, emptied, faults, calls, second>>

\* update_expires_at: the bucket update that drops the key from prev's bucket
update_prev(t) ==
    /\ th[t].pc = "update_prev"
    /\ \E r \in {StructuredTree_update_and_fetch(expires_at_inverse,
                    to_string(Unwrap(th[t].prev)),
                    drop_key(th[t].key))} :
        /\ expires_at_inverse' = r.tree
        /\ Step(t, IF ~r.res.ok THEN Failed(th[t], r.res)
                   ELSE [th[t] EXCEPT !.prev = None, !.pc = "update_new"])
    /\ emptied' = Emptying(th[t].key, to_string(Unwrap(th[t].prev)))
    /\ UNCHANGED <<data, expires_at, config, clock, refreshed, faults, calls, second>>

\* update_expires_at: the bucket update that adds the key to the new bucket
update_new(t) ==
    /\ th[t].pc = "update_new"
    /\ \E r \in {StructuredTree_update_and_fetch(expires_at_inverse,
                    to_string(new_expiry(t)),
                    add_key(th[t].key))} :
        /\ expires_at_inverse' = r.tree
        /\ IF ~r.res.ok
           THEN Step(t, Failed(th[t], r.res)) /\ UNCHANGED refreshed
           ELSE Step(t, AfterBookkeeping(th[t])) /\ refreshed' = Bump(th[t].key)
    /\ UNCHANGED <<emptied, faults, calls, second>>
    /\ UNCHANGED <<data, expires_at, config, clock>>

\* remove_expires_at: self.expires_at.remove(key)
remove_expires_at(t) ==
    /\ th[t].pc = "remove_expires_at"
    /\ LET r == StructuredTree_remove(expires_at, th[t].key) IN
        /\ expires_at' = r.tree
        /\ IF ~r.res.ok
           THEN Step(t, Failed(th[t], r.res)) /\ UNCHANGED refreshed
           ELSE /\ refreshed' = Reset(th[t].key)
                /\ Step(t, IF IsSome(r.res.val)
                           THEN [th[t] EXCEPT !.prev = r.res.val,
                                              !.pc = "remove_prev"]
                           ELSE AfterBookkeeping(th[t]))
    /\ UNCHANGED <<data, expires_at_inverse, config, clock, emptied, faults, calls, second>>

\* Faulty variant: remove_expires_at drops the forward entry only
remove_prev_skipped(t) ==
    /\ th[t].pc = "remove_prev"
    /\ Step(t, AfterBookkeeping(th[t]))
    /\ UNCHANGED <<trees, config, clock, refreshed, emptied, faults, calls, second>>

\* remove_expires_at: the bucket update that drops the key from prev's bucket
remove_prev(t) ==
    /\ th[t].pc = "remove_prev"
    /\ \E r \in {StructuredTree_update_and_fetch(expires_at_inverse,
                    to_string(Unwrap(th[t].prev)),
                    drop_key(th[t].key))} :
        /\ expires_at_inverse' = r.tree
        /\ Step(t, IF ~r.res.ok THEN Failed(th[t], r.res)
                   ELSE AfterBookkeeping(th[t]))
    /\ emptied' = Emptying(th[t].key, to_string(Unwrap(th[t].prev)))
    /\ UNCHANGED <<data, expires_at, config, clock, refreshed, faults, calls, second>>

\* ---------------------------------------------- sled's optimistic retry
\* sled::Tree::update_and_fetch is a loop: the bytes read for the key are
\* given to the closure and the result is stored by a compare_and_swap
\* against the bytes read; when the swap fails the loop goes round with the
\* bytes the swap found.  update_prev, update_new and remove_prev are what
\* the loop does in the step in which its swap succeeds.
BucketUpdates == {"update_prev", "update_new", "remove_prev"}
\* the bucket that the bucket update of thread t is about
BucketOfCall(t) ==
    IF th[t].pc = "update_new" THEN to_string(new_expiry(t))
    ELSE to_string(Unwrap(th[t].prev))
\* the loop of the bucket update thread t is in has read
Reading(t) == IsSome(th[t].seen) /\ Unwrap(th[t].seen).pc = th[t].pc

\* A thread calls insert, get or remove, one of the finitely many calls.
CallCounted(t) ==
    /\ calls > 0
    /\ calls' = calls - 1
    /\ th[t].pc = "idle"
    /\ \E op \in {"insert", "get", "remove"}, k \in Keys :
        Step(t, [Idle EXCEPT !.pc = "data", !.op = op, !.key = k,
                             !.new = IF op = "insert" THEN Some("v1") ELSE None])
    /\ UNCHANGED <<trees, config, clock, refreshed, emptied, faults, second>>

\* the key that thread t works on when every thread has a key of its own
OwnKey(t) == IF t = T1 THEN "a" ELSE "b"

\* A thread calls insert, get or remove on its own key, one of the finitely
\* many calls.
CallOwnKey(t) ==
    /\ calls > 0
    /\ calls' = calls - 1
    /\ th[t].pc = "idle"
    /\ \E op \in {"insert", "get", "remove"} :
        Step(t, [Idle EXCEPT !.pc = "data", !.op = op, !.key = OwnKey(t),
                             !.new = IF op = "insert" THEN Some("v1") ELSE None])
    /\ UNCHANGED <<trees, config, clock, refreshed, emptied, faults, second>>

\* the loop's first read of the bucket
retry_get(t) ==
    /\ th[t].pc \in BucketUpdates
    /\ ~Reading(t)
    /\ Step(t, [th[t] EXCEPT !.seen =
                    Some([pc |-> th[t].pc, retries |-> 0,
                          current |-> TreeGet(expires_at_inverse, BucketOfCall(t))])])
    /\ UNCHANGED <<trees, config, clock, refreshed, emptied, faults, calls, second>>

\* Faulty variant: a failed swap goes round with the bytes it had
retry_compare_and_swap_keeps_stale(t) ==
    /\ th[t].pc \in BucketUpdates
    /\ Reading(t)
    /\ IF TreeGet(expires_at_inverse, BucketOfCall(t)) = Unwrap(th[t].seen).current
       THEN \/ update_prev(t)
            \/ update_new(t)
            \/ remove_prev(t)
       ELSE UNCHANGED vars

\* Faulty variant: the loop stores what the closure makes of the bytes it
\* read, without comparing them with the bytes the bucket holds now
retry_compare_and_swap_blind(t) ==
    /\ th[t].pc \in BucketUpdates
    /\ Reading(t)
    /\ \E f \in {IF th[t].pc = "update_new" THEN add_key(th[t].key)
                  ELSE drop_key(th[t].key)} :
        expires_at_inverse' =
            TreePut(expires_at_inverse, BucketOfCall(t),
                    OkOrNone(EncodeOpt(
                        f[OkOrNone(DecodeOpt(Unwrap(th[t].seen).current))])))
    /\ Step(t, IF th[t].pc = "update_prev"
               THEN [th[t] EXCEPT !.prev = None, !.pc = "update_new"]
               ELSE AfterBookkeeping(th[t]))
    /\ UNCHANGED <<data, expires_at, config, clock, refreshed, emptied, faults, calls, second>>

\* the loop's compare_and_swap: it succeeds when the bucket still holds the
\* bytes read, otherwise the loop goes round with the bytes it found
retry_compare_and_swap(t) ==
    /\ th[t].pc \in BucketUpdates
    /\ Reading(t)
    /\ IF TreeGet(expires_at_inverse, BucketOfCall(t)) = Unwrap(th[t].seen).current
       THEN \/ update_prev(t)
            \/ update_new(t)
            \/ remove_prev(t)
       ELSE /\ Step(t, [th[t] EXCEPT !.seen =
                    Some([pc |-> th[t].pc,
                          retries |-> Unwrap(th[t].seen).retries + 1,
                          current |-> TreeGet(expires_at_inverse, BucketOfCall(t))])])
            /\ UNCHANGED <<trees, config, clock, refreshed, emptied, faults, calls, second>>

\* the orders in which a HashSet may be iterated
Orders(S) ==
    {q \in [1..Cardinality(S) -> S] : \A i, j \in DOMAIN q : q[i] = q[j] => i = j}

\* ExpiringTree::expired: let now = Utc::now().to_string().into_bytes()
expired(t) ==
    /\ th[t].pc = "expired"
    /\ Step(t, [th[t] EXCEPT !.at = Some(clock), !.ret = Ok(<<>>),
                             !.pc = "expired_next"])
    /\ UNCHANGED <<trees, config, clock, refreshed, emptied, faults, calls, second>>

\* Faulty variant: range(..=now): the upper bound is included
expired_range_inclusive(t) ==
    {s \in DOMAIN expires_at_inverse :
        /\ ~BytesLess(to_string(Unwrap(th[t].at)), s)
        /\ IsNone(th[t].cursor) \/ BytesLess(Unwrap(th[t].cursor), s)}

\* Faulty variant: range(..): the scan has no upper bound
expired_range_unbounded(t) ==
    {s \in DOMAIN expires_at_inverse :
        IsNone(th[t].cursor) \/ BytesLess(Unwrap(th[t].cursor), s)}

\* the buckets of range(..now) that the scan has not passed yet
expired_range(t) ==
    {s \in DOMAIN expires_at_inverse :
        /\ BytesLess(s, to_string(Unwrap(th[t].at)))
        /\ IsNone(th[t].cursor) \/ BytesLess(Unwrap(th[t].cursor), s)}

\* Faulty variant: the scan deletes each bucket it has yielded
expired_next_consumes(t) ==
    /\ th[t].pc = "expired_next"
    /\ IF expired_range(t) = {}
       THEN Step(t, Done(th[t])) /\ UNCHANGED expires_at_inverse
       ELSE LET s == CHOOSE x \in expired_range(t) :
                        \A y \in expired_range(t) \ {x} : BytesLess(x, y)
                d == Decode(expires_at_inverse[s])
            IN  /\ expires_at_inverse' = TreeRemove(expires_at_inverse, s)
                /\ \E q \in Orders(d.val) :
                        Step(t, [th[t] EXCEPT !.cursor = Some(s),
                                              !.ret = Ok(@.val \o q)])
    /\ UNCHANGED <<data, expires_at, config, clock, refreshed, emptied, faults, calls, second>>

\* Faulty variant: the scan ends at a bucket that does not decode
expired_next_stops_at_error(t) ==
    /\ th[t].pc = "expired_next"
    /\ IF expired_range(t) = {}
       THEN Step(t, Done(th[t]))
       ELSE LET s == CHOOSE x \in expired_range(t) :
                        \A y \in expired_range(t) \ {x} : BytesLess(x, y)
                d == Decode(expires_at_inverse[s])
            IN  IF d.ok
                THEN \E q \in Orders(d.val) :
                        Step(t, [th[t] EXCEPT !.cursor = Some(s),
                                              !.ret = Ok(@.val \o q)])
                ELSE Step(t, Done(th[t]))
    /\ UNCHANGED <<trees, config, clock, refreshed, emptied, faults, calls, second>>

\* one step of the iterator of expired(): the next bucket of the range is
\* read, skipped when it does not decode, and its keys are yielded; the
\* iterator ends when the range holds no further bucket
expired_next(t) ==
    /\ th[t].pc = "expired_next"
    /\ IF expired_range(t) = {}
       THEN Step(t, Done(th[t]))
       ELSE LET s == CHOOSE x \in expired_range(t) :
                        \A y \in expired_range(t) \ {x} : BytesLess(x, y)
                d == Decode(expires_at_inverse[s])
            IN  IF d.ok
                THEN \E q \in Orders(d.val) :
                        Step(t, [th[t] EXCEPT !.cursor = Some(s),
                                              !.ret = Ok(@.val \o q)])
                ELSE Step(t, [th[t] EXCEPT !.cursor = Some(s)])
    /\ UNCHANGED <<trees, config, clock, refreshed, emptied, faults, calls, second>>

\* The operation has returned th[t].ret to its caller.
Return(t) ==
    /\ th[t].pc = "done"
    /\ Step(t, Idle)
    /\ UNCHANGED <<trees, config, clock, refreshed, emptied, faults, calls, second>>

\* --------------------------------------------------------- specifications
OpsIRG == {"insert", "remove", "get"}
OpsAll == {"insert", "remove", "get", "compare_and_swap", "expired"}

\* one caller; insert, remove and get only
NextIRG ==
    \/ Tick(MaxTime)
    \/ CallOf(T1, OpsIRG, Vals)
    \/ insert(T1)
    \/ get(T1)
    \/ remove(T1)
    \/ utc_now(T1)
    \/ update_expires_at(T1)
    \/ update_prev(T1)
    \/ update_new(T1)
    \/ remove_expires_at(T1)
    \/ remove_prev(T1)
    \/ Return(T1)

SpecIRG == InitExtendOnUpdate /\ [][NextIRG]_vars

\* one caller, every operation
NextSeq ==
    \/ Tick(MaxTime)
    \/ CallOf(T1, OpsAll, Vals)
    \/ insert(T1)
    \/ get(T1)
    \/ remove(T1)
    \/ compare_and_swap(T1)
    \/ utc_now(T1)
    \/ update_expires_at(T1)
    \/ update_prev(T1)
    \/ update_new(T1)
    \/ remove_expires_at(T1)
    \/ remove_prev(T1)
    \/ expired(T1)
    \/ expired_next(T1)
    \/ Return(T1)

SpecSeq == Init /\ [][NextSeq]_vars

\* one caller, insert only, refreshes counted
NextRefresh ==
    \/ Tick(MaxTime)
    \/ CallOf(T1, {"insert"}, Vals)
    \/ insert(T1)
    \/ utc_now(T1)
    \/ update_expires_at(T1)
    \/ update_prev(T1)
    \/ update_new(T1)
    \/ Return(T1)

SpecRefresh == InitCounting /\ [][NextRefresh]_vars

\* concurrent callers of insert, remove and get
Next ==
    \/ Tick(MaxTimeConc)
    \/ \E t \in Threads : CallOf(t, OpsIRG, {"v1"})
    \/ \E t \in Threads : insert(t)
    \/ \E t \in Threads : get(t)
    \/ \E t \in Threads : remove(t)
    \/ \E t \in Threads : utc_now(t)
    \/ \E t \in Threads : update_expires_at(t)
    \/ \E t \in Threads : update_prev(t)
    \/ \E t \in Threads : update_new(t)
    \/ \E t \in Threads : remove_expires_at(t)
    \/ \E t \in Threads : remove_prev(t)

Spec == InitConcurrent /\ [][Next]_vars

\* one caller; update_and_fetch, fetch_and_update, pop_min and pop_max on
\* trees filled by insert and get
NextRmw ==
    \/ Tick(MaxTime)
    \/ CallOf(T1, {"insert", "get"}, {"v1"})
    \/ CallRmw(T1)
    \/ CallPop(T1)
    \/ insert(T1)
    \/ get(T1)
    \/ update_and_fetch(T1)
    \/ fetch_and_update(T1)
    \/ pop_min(T1)
    \/ pop_max(T1)
    \/ utc_now(T1)
    \/ update_expires_at(T1)
    \/ update_prev(T1)
    \/ update_new(T1)
    \/ remove_expires_at(T1)
    \/ remove_prev(T1)
    \/ Return(T1)

SpecRmw == Init /\ [][NextRmw]_vars

\* one caller building a batch
NextBatchBuild ==
    \/ batch_insert(T1)
    \/ batch_remove(T1)

SpecBatchBuild == InitNoFetch /\ [][NextBatchBuild]_vars

\* one caller building a batch of inserts, some of which fail to encode,
\* and of removals, and applying it
NextBatchBuilt ==
    \/ Tick(MaxTimeConc)
    \/ batch_insert_any(T1)
    \/ batch_remove_any(T1)
    \/ CallBuilt(T1)
    \/ apply_batch(T1)
    \/ batch_now(T1)
    \/ batch_next(T1)
    \/ update_expires_at(T1)
    \/ update_prev(T1)
    \/ update_new(T1)
    \/ Return(T1)

SpecBatchBuilt == InitNoFetch /\ [][NextBatchBuilt]_vars

\* one caller; apply_batch on trees filled by insert and remove
NextBatch ==
    \/ Tick(MaxTime)
    \/ CallKeys(T1, {"insert", "remove"}, {"v1"}, BatchKeys)
    \/ CallBatch(T1)
    \/ insert(T1)
    \/ remove(T1)
    \/ apply_batch(T1)
    \/ batch_now(T1)
    \/ batch_next(T1)
    \/ utc_now(T1)
    \/ update_expires_at(T1)
    \/ update_prev(T1)
    \/ update_new(T1)
    \/ remove_expires_at(T1)
    \/ remove_prev(T1)
    \/ Return(T1)

SpecBatch == InitNoFetch /\ [][NextBatch]_vars

\* one caller of insert and of transactions, next to a reader of expired()
NextTx ==
    \/ Tick(MaxTimeConc)
    \/ CallOf(T1, {"insert"}, {"v1"})
    \/ CallTx(T1)
    \/ insert(T1)
    \/ tx_insert(T1)
    \/ tx_remove(T1)
    \/ tx_commit(T1)
    \/ tx_abort(T1)
    \/ utc_now(T1)
    \/ update_expires_at(T1)
    \/ update_prev(T1)
    \/ update_new(T1)
    \/ remove_expires_at(T1)
    \/ remove_prev(T1)
    \/ Return(T1)
    \/ CallOf(T2, {"expired"}, {"v1"})
    \/ expired(T2)
    \/ expired_next(T2)
    \/ Return(T2)

SpecTx == InitNoFetch /\ [][NextTx]_vars

\* one caller of transactions whose closure the engine may run again
NextTxRerun ==
    \/ Tick(MaxTime)
    \/ CallTx(T1)
    \/ tx_insert(T1)
    \/ tx_remove(T1)
    \/ tx_commit(T1)
    \/ tx_abort(T1)
    \/ tx_conflict(T1)
    \/ utc_now(T1)
    \/ update_expires_at(T1)
    \/ update_prev(T1)
    \/ update_new(T1)
    \/ remove_expires_at(T1)
    \/ remove_prev(T1)
    \/ Return(T1)

SpecTxRerun == InitNoFetch /\ [][NextTxRerun]_vars

\* one caller of every mutating operation, sled returning errors
NextFault ==
    \/ Tick(MaxTimeConc)
    \/ CallOf(T1, {"insert", "remove", "compare_and_swap"}, {"v1"})
    \/ CallRmw(T1)
    \/ CallPop(T1)
    \/ CallBatchKeys(T1, Keys)
    \/ insert(T1)
    \/ remove(T1)
    \/ compare_and_swap(T1)
    \/ update_and_fetch(T1)
    \/ fetch_and_update(T1)
    \/ pop_min(T1)
    \/ pop_max(T1)
    \/ apply_batch(T1)
    \/ batch_now(T1)
    \/ batch_next(T1)
    \/ utc_now(T1)
    \/ update_expires_at(T1)
    \/ update_prev(T1)
    \/ update_new(T1)
    \/ remove_expires_at(T1)
    \/ remove_prev(T1)
    \/ sled_error(T1)
    \/ Return(T1)

SpecFault == InitFault /\ [][NextFault]_vars

\* one caller of insert under extend_on_update, sled returning errors
NextRetry ==
    \/ Tick(MaxTime)
    \/ CallOf(T1, {"insert"}, {"v1"})
    \/ insert(T1)
    \/ utc_now(T1)
    \/ update_expires_at(T1)
    \/ update_prev(T1)
    \/ update_new(T1)
    \/ sled_error(T1)
    \/ Return(T1)

SpecRetry == InitFaultExtendOnUpdate /\ [][NextRetry]_vars

\* concurrent callers of insert and remove
NextIR ==
    \/ Tick(MaxTimeConc)
    \/ \E t \in Threads : CallOf(t, {"insert", "remove"}, {"v1"})
    \/ \E t \in Threads : insert(t)
    \/ \E t \in Threads : remove(t)
    \/ \E t \in Threads : utc_now(t)
    \/ \E t \in Threads : update_expires_at(t)
    \/ \E t \in Threads : update_prev(t)
    \/ \E t \in Threads : update_new(t)
    \/ \E t \in Threads : remove_expires_at(t)
    \/ \E t \in Threads : remove_prev(t)

SpecIR == InitConcurrent /\ [][NextIR]_vars

\* one caller iterating over trees filled by insert
NextIter ==
    \/ Tick(MaxTime)
    \/ CallOf(T1, {"insert"}, {"v1"})
    \/ CallIter(T1)
    \/ insert(T1)
    \/ iter_next(T1)
    \/ iter_next_back(T1)
    \/ iter_drop(T1)
    \/ utc_now(T1)
    \/ update_expires_at(T1)
    \/ update_prev(T1)
    \/ update_new(T1)
    \/ Return(T1)

SpecIter == Init /\ [][NextIter]_vars

\* one caller of a StructuredTree that holds entries as it is opened
NextStructured ==
    \/ CallStructured(T1)
    \/ structured_get(T1)
    \/ structured_insert(T1)
    \/ structured_remove(T1)
    \/ structured_compare_and_swap(T1)
    \/ structured_update_and_fetch(T1)
    \/ structured_fetch_and_update(T1)
    \/ Return(T1)

SpecStructured == InitStructured /\ [][NextStructured]_vars

\* one caller of insert and expired() on a tree whose expires_at_inverse
\* holds buckets that do not decode
NextReap ==
    \/ Tick(MaxTime)
    \/ CallOf(T1, {"insert", "expired"}, {"v1"})
    \/ insert(T1)
    \/ utc_now(T1)
    \/ update_expires_at(T1)
    \/ update_prev(T1)
    \/ update_new(T1)
    \/ expired(T1)
    \/ expired_next(T1)
    \/ Return(T1)

SpecReap == InitRawBuckets /\ [][NextReap]_vars

\* the steps thread t takes once it has been called; results are not kept
\* (observe is off), so the last step of an operation is also its return
Run(t) ==
    \/ insert(t)
    \/ get(t)
    \/ remove(t)
    \/ utc_now(t)
    \/ update_expires_at(t)
    \/ remove_expires_at(t)
    \/ retry_get(t)
    \/ retry_compare_and_swap(t)

\* concurrent callers of finitely many insert, get and remove, the bucket
\* updates as sled's retry loop, every called thread scheduled fairly
NextCounted ==
    \/ Tick(MaxTimeConc)
    \/ \E t \in Threads : CallCounted(t)
    \/ \E t \in Threads : Run(t)

SpecCounted ==
    InitCounted /\ [][NextCounted]_vars /\ \A t \in Threads : WF_vars(Run(t))

\* one caller of insert and clear, next to a reader of expired()
NextClear ==
    \/ Tick(MaxTimeConc)
    \/ CallOf(T1, {"insert"}, {"v1"})
    \/ CallClear(T1)
    \/ insert(T1)
    \/ clear(T1)
    \/ clear_expires_at(T1)
    \/ clear_expires_at_inverse(T1)
    \/ utc_now(T1)
    \/ update_expires_at(T1)
    \/ update_prev(T1)
    \/ update_new(T1)
    \/ Return(T1)
    \/ CallOf(T2, {"expired"}, {"v1"})
    \/ expired(T2)
    \/ expired_next(T2)
    \/ Return(T2)

SpecClear == InitNoFetch /\ [][NextClear]_vars

\* one caller of every operation on a tree built with the defaults; no
\* operation gets to a refresh or to a bucket update, whose steps are left
\* out (C29 checks that none is ever due)
NextDefaults ==
    \/ Tick(MaxTimeConc)
    \/ CallOf(T1, OpsAll, {"v1"})
    \/ CallRmw(T1)
    \/ CallPop(T1)
    \/ CallNeighbour(T1)
    \/ CallBatchKeys(T1, Keys)
    \/ CallTx(T1)
    \/ CallIter(T1)
    \/ CallClear(T1)
    \/ insert(T1)
    \/ get(T1)
    \/ remove(T1)
    \/ compare_and_swap(T1)
    \/ update_and_fetch(T1)
    \/ fetch_and_update(T1)
    \/ pop_min(T1)
    \/ pop_max(T1)
    \/ get_lt(T1)
    \/ get_gt(T1)
    \/ apply_batch(T1)
    \/ tx_insert(T1)
    \/ tx_remove(T1)
    \/ tx_commit(T1)
    \/ tx_abort(T1)
    \/ iter_next(T1)
    \/ iter_next_back(T1)
    \/ iter_drop(T1)
    \/ clear(T1)
    \/ clear_expires_at(T1)
    \/ clear_expires_at_inverse(T1)
    \/ remove_expires_at(T1)
    \/ expired(T1)
    \/ expired_next(T1)
    \/ Return(T1)

SpecDefaults == InitDefaults /\ [][NextDefaults]_vars

\* one caller of the operations on a single key, and of expired(), under
\* any setting of the flags
NextSingleKey ==
    \/ Tick(MaxTimeConc)
    \/ CallOf(T1, OpsAll, {"v1"})
    \/ CallRmw(T1)
    \/ CallPop(T1)
    \/ CallNeighbour(T1)
    \/ insert(T1)
    \/ get(T1)
    \/ remove(T1)
    \/ compare_and_swap(T1)
    \/ update_and_fetch(T1)
    \/ fetch_and_update(T1)
    \/ pop_min(T1)
    \/ pop_max(T1)
    \/ get_lt(T1)
    \/ get_gt(T1)
    \/ utc_now(T1)
    \/ update_expires_at(T1)
    \/ update_prev(T1)
    \/ update_new(T1)
    \/ remove_expires_at(T1)
    \/ remove_prev(T1)
    \/ expired(T1)
    \/ expired_next(T1)
    \/ Return(T1)

SpecSingleKey == Init /\ [][NextSingleKey]_vars

\* one caller of every operation, under any setting of the flags
NextEvery ==
    \/ Tick(MaxTimeConc)
    \/ CallOf(T1, OpsAll, {"v1"})
    \/ CallRmw(T1)
    \/ CallPop(T1)
    \/ CallNeighbour(T1)
    \/ CallBatchKeys(T1, Keys)
    \/ CallTx(T1)
    \/ CallIter(T1)
    \/ CallClear(T1)
    \/ insert(T1)
    \/ get(T1)
    \/ remove(T1)
    \/ compare_and_swap(T1)
    \/ update_and_fetch(T1)
    \/ fetch_and_update(T1)
    \/ pop_min(T1)
    \/ pop_max(T1)
    \/ get_lt(T1)
    \/ get_gt(T1)
    \/ apply_batch(T1)
    \/ batch_now(T1)
    \/ batch_next(T1)
    \/ tx_insert(T1)
    \/ tx_remove(T1)
    \/ tx_commit(T1)
    \/ tx_abort(T1)
    \/ iter_next(T1)
    \/ iter_next_back(T1)
    \/ iter_drop(T1)
    \/ clear(T1)
    \/ clear_expires_at(T1)
    \/ clear_expires_at_inverse(T1)
    \/ utc_now(T1)
    \/ update_expires_at(T1)
    \/ update_prev(T1)
    \/ update_new(T1)
    \/ remove_expires_at(T1)
    \/ remove_prev(T1)
    \/ expired(T1)
    \/ expired_next(T1)
    \/ Return(T1)

SpecEvery == Init /\ [][NextEvery]_vars

\* one caller of insert, get and remove and of the operations that only
\* read data, under any setting of the flags
NextQuery ==
    \/ Tick(MaxTime)
    \/ CallOf(T1, OpsIRG, {"v1"})
    \/ CallQuery(T1)
    \/ insert(T1)
    \/ get(T1)
    \/ remove(T1)
    \/ contains_key(T1)
    \/ len(T1)
    \/ is_empty(T1)
    \/ name(T1)
    \/ flush(T1)
    \/ flush_expires_at(T1)
    \/ flush_expires_at_inverse(T1)
    \/ utc_now(T1)
    \/ update_expires_at(T1)
    \/ update_prev(T1)
    \/ update_new(T1)
    \/ remove_expires_at(T1)
    \/ remove_prev(T1)
    \/ Return(T1)

SpecQuery == Init /\ [][NextQuery]_vars

\* a caller of insert, get and remove of the first tree next to a caller of
\* insert, get and remove of the second
NextTwoTrees ==
    \/ Tick(MaxTimeConc)
    \/ CallKeys(T1, OpsIRG, {"v1"}, {"a"})
    \/ insert(T1)
    \/ get(T1)
    \/ remove(T1)
    \/ utc_now(T1)
    \/ update_expires_at(T1)
    \/ update_prev(T1)
    \/ update_new(T1)
    \/ remove_expires_at(T1)
    \/ remove_prev(T1)
    \/ CallSecond(T2)
    \/ second_data(T2)
    \/ second_update_expires_at(T2)
    \/ second_remove_expires_at(T2)
    \/ second_update_prev(T2)
    \/ second_update_new(T2)

SpecTwoTrees == InitTwoTrees /\ [][NextTwoTrees]_vars

\* two concurrent callers of finitely many insert, get and remove, each on
\* a key of its own, the bucket updates as sled's retry loop
NextOwnKeys ==
    \/ Tick(MaxTimeConc)
    \/ \E t \in Threads : CallOwnKey(t)
    \/ \E t \in Threads : insert(t)
    \/ \E t \in Threads : get(t)
    \/ \E t \in Threads : remove(t)
    \/ \E t \in Threads : utc_now(t)
    \/ \E t \in Threads : update_expires_at(t)
    \/ \E t \in Threads : remove_expires_at(t)
    \/ \E t \in Threads : retry_get(t)
    \/ \E t \in Threads : retry_compare_and_swap(t)

SpecOwnKeys == InitCounted /\ [][NextOwnKeys]_vars

\* ------------------------------------------------------------- the claims
\* the forward entry of k, decoded
forward(k) == Decode(expires_at[k]).val
\* the key set of bucket s, decoded
bucket(inv, s) == Decode(inv[s]).val
\* the buckets of tree inv that k is a member of
BucketsIn(inv, k) == {s \in DOMAIN inv : k \in bucket(inv, s)}
BucketsOf(k) == BucketsIn(expires_at_inverse, k)
\* the one caller of the sequential specifications is between operations
Quiescent == th[T1].pc \in {"idle", "done"}
\* the one caller has just finished operation op
Finished(op) == th[T1].pc = "done" /\ th[T1].op = op

\* C1: after any sequence of insert/remove/get by one caller on a tree built
\* with extend_on_update, every key in data has a forward entry and is a
\* member of exactly one bucket, the one of the string of its forward
\* entry, and every member of a bucket has that bucket's timestamp as its
\* forward entry.
C1_ForwardAndInverseAgree ==
    (Quiescent /\ extend_on_update) =>
        /\ \A k \in DOMAIN data :
            /\ k \in DOMAIN expires_at
            /\ BucketsOf(k) = {to_string(forward(k))}
        /\ \A s \in DOMAIN expires_at_inverse : \A k \in bucket(expires_at_inverse, s) :
            /\ k \in DOMAIN expires_at
            /\ to_string(forward(k)) = s

\* both keys are stored with different expiries after a get refreshed one
C1_Witness ==
    /\ Finished("get")
    /\ extend_on_fetch
    /\ DOMAIN data = Keys
    /\ forward("a") # forward("b")
    /\ Cardinality(DOMAIN expires_at_inverse) = 2

\* C2: a key is a member of at most one bucket in every reachable state,
\* also while and after two threads refresh the same key concurrently.
C2_AtMostOneBucket ==
    \A k \in Keys : Cardinality(BucketsOf(k)) <= 1

\* C3: after remove(k) by one caller, k has no forward entry and is in no
\* bucket; and when k has no forward entry as remove(k) starts, no step of
\* it changes expires_at or expires_at_inverse.
C3_RemoveCleans ==
    [][ (th[T1].op = "remove") =>
          /\ (th'[T1].pc = "done") =>
                /\ th[T1].key \notin DOMAIN expires_at'
                /\ BucketsIn(expires_at_inverse', th[T1].key) = {}
          /\ (th[T1].pc \in {"data", "remove_expires_at"}
                /\ th[T1].key \notin DOMAIN expires_at) =>
                /\ UNCHANGED <<expires_at, expires_at_inverse>>
                /\ (th[T1].pc = "remove_expires_at" /\ th' # th) =>
                        th'[T1].pc = "done"
      ]_vars

\* remove(k) has removed k's forward entry and taken k out of a bucket that
\* another key is still a member of
C3_Witness ==
    /\ Finished("remove")
    /\ IsSome(th[T1].prev)
    /\ to_string(Unwrap(th[T1].prev)) \in DOMAIN expires_at_inverse
    /\ th[T1].key \notin DOMAIN expires_at

\* C4: in a refresh by a single caller the key is taken out of its previous
\* bucket before it is added to the new one, so it is in at most one bucket
\* at every step and in none right before it is added; after the refresh it
\* is in exactly the bucket of the latest expiry, and no emptied bucket is
\* left behind.
C4_RefreshMoves ==
    /\ \A k \in Keys : Cardinality(BucketsOf(k)) <= 1
    /\ th[T1].pc = "update_new" => BucketsOf(th[T1].key) = {}
    /\ Finished("insert") =>
        /\ forward(th[T1].key) = new_expiry(T1)
        /\ BucketsOf(th[T1].key) = {to_string(new_expiry(T1))}
    /\ Quiescent =>
        DOMAIN expires_at_inverse = {to_string(forward(k)) : k \in DOMAIN expires_at}

\* key "a" was inserted at 0, updated at 1 and at 2, and is in one bucket
C4_Witness ==
    /\ Finished("insert")
    /\ th[T1].key = "a"
    /\ refreshed["a"] >= 3
    /\ clock = 2 /\ th[T1].at = Some(2)
    /\ "b" \notin DOMAIN expires_at
    /\ DOMAIN expires_at_inverse = {to_string(2 + expiration_length)}

\* C5: no bucket of expires_at_inverse ever holds the empty key set, in any
\* interleaving of concurrent callers.
C5_NoEmptyBucket ==
    \A s \in DOMAIN expires_at_inverse :
        /\ Decode(expires_at_inverse[s]).ok
        /\ bucket(expires_at_inverse, s) # {}

\* a bucket update has dropped the only member of a bucket while the other
\* thread is in the middle of a refresh
C5_Witness ==
    /\ emptied = 1
    /\ \E t \in Threads : th[t].pc = "update_new"

\* the keys of a sequence
Range(q) == {q[i] : i \in DOMAIN q}
\* the sequence yields no key twice
NoRepeat(q) == \A i, j \in DOMAIN q : q[i] = q[j] => i = j
\* the yielded keys come in ascending order of their recorded expiry
Ascending(q) == \A i, j \in DOMAIN q : i < j => forward(q[i]) <= forward(q[j])

\* C6 as claimed: expired() called at T yields exactly the keys whose
\* recorded expiry is at or before T, earlier buckets first.
C6_YieldsAtOrBefore ==
    Finished("expired") =>
        /\ Range(th[T1].ret.val) =
                {k \in DOMAIN expires_at : forward(k) <= Unwrap(th[T1].at)}
        /\ NoRepeat(th[T1].ret.val)
        /\ Ascending(th[T1].ret.val)

\* C6 as amended: expired() called at T by one caller yields exactly the
\* keys whose recorded expiry is strictly before T, each once, the keys of
\* an earlier bucket before those of a later one, and nothing when no
\* recorded expiry is before T.  A key whose expiry equals T is not yielded.
C6_YieldsStrictlyBefore ==
    Finished("expired") =>
        /\ Range(th[T1].ret.val) =
                {k \in DOMAIN expires_at : forward(k) < Unwrap(th[T1].at)}
        /\ NoRepeat(th[T1].ret.val)
        /\ Ascending(th[T1].ret.val)

\* expired() has yielded two keys of two buckets, the earlier one first
C6_Witness ==
    /\ Finished("expired")
    /\ Len(th[T1].ret.val) = 2
    /\ forward(th[T1].ret.val[1]) < forward(th[T1].ret.val[2])

\* C7: expired() only reads: no step of it changes data, expires_at or
\* expires_at_inverse, and the key set it yields is determined by
\* expires_at_inverse and its `now` alone.
C7_ExpiredOnlyReads ==
    /\ [][th[T1].pc \in {"expired", "expired_next"} => UNCHANGED trees]_vars
    /\ [](Finished("expired") =>
            Range(th[T1].ret.val) =
                UNION {bucket(expires_at_inverse, s) :
                        s \in {x \in DOMAIN expires_at_inverse :
                                BytesLess(x, to_string(Unwrap(th[T1].at)))}})

\* expired() has yielded a key that is still stored, with its metadata
C7_Witness ==
    /\ Finished("expired")
    /\ Len(th[T1].ret.val) >= 1
    /\ th[T1].ret.val[1] \in DOMAIN data
    /\ th[T1].ret.val[1] \in DOMAIN expires_at
    /\ BucketsOf(th[T1].ret.val[1]) # {}

MutatingOps ==
    {"insert", "remove", "compare_and_swap", "update_and_fetch",
     "fetch_and_update", "pop_min", "pop_max", "apply_batch", "clear",
     "transaction"}

\* C8: data changes only in the data step of a mutating operation and only
\* at the key of that operation (never by the clock, by expired() or by the
\* bookkeeping), and get(k) returns what data holds for k.
C8_NeverEvicts ==
    /\ [][data' # data =>
            /\ th[T1].pc = "data"
            /\ th[T1].op \in MutatingOps
            /\ \A k \in Keys \ {th[T1].key} : TreeGet(data', k) = TreeGet(data, k)
         ]_vars
    /\ [](Finished("get") =>
            th[T1].ret = DecodeOpt(TreeGet(data, th[T1].key)))

\* get(k) has returned the value of a key whose expiry has passed
C8_Witness ==
    /\ Finished("get")
    /\ IsSome(th[T1].ret.val)
    /\ th[T1].key \in DOMAIN expires_at
    /\ forward(th[T1].key) < clock

\* C9: a compare_and_swap whose comparison fails changes none of the three
\* collections and returns the current and the proposed value; one whose
\* comparison holds succeeds, and after compare_and_swap(k, None, Some(v))
\* has succeeded k holds v and, under extend_on_update, has a forward entry
\* and is a member of the bucket of that entry.
C9_CompareAndSwap ==
    /\ [][ (th[T1].pc = "data" /\ th[T1].op = "compare_and_swap" /\ th' # th) =>
            IF DecodeOpt(TreeGet(data, th[T1].key)).val # th[T1].old
            THEN /\ UNCHANGED trees
                 /\ th'[T1].pc = "done"
                 /\ th'[T1].ret =
                        Ok(Err([current |-> DecodeOpt(TreeGet(data, th[T1].key)).val,
                                proposed |-> th[T1].new]))
            ELSE th'[T1].ret = Ok(Ok("swapped"))
         ]_vars
    /\ []((Finished("compare_and_swap") /\ th[T1].ret = Ok(Ok("swapped"))
            /\ IsNone(th[T1].old) /\ IsSome(th[T1].new)) =>
            /\ DecodeOpt(TreeGet(data, th[T1].key)).val = th[T1].new
            /\ extend_on_update =>
                /\ th[T1].key \in DOMAIN expires_at
                /\ BucketsOf(th[T1].key) = {to_string(forward(th[T1].key))})

\* compare_and_swap(k, None, Some(v2)) has met v1 and returned the conflict,
\* k keeping the metadata it had
C9_Witness ==
    /\ Finished("compare_and_swap")
    /\ IsNone(th[T1].old)
    /\ th[T1].ret = Ok(Err([current |-> Some("v1"), proposed |-> Some("v2")]))
    /\ extend_on_update
    /\ BucketsOf(th[T1].key) # {}

\* C10: a successful compare_and_swap(k, old, new) deletes k's metadata
\* whenever new is absent, refreshes it when new is present and
\* extend_on_update is set, and leaves the metadata unchanged when new is
\* present and extend_on_update is not set.
C10_SwapBookkeeping ==
    [][ (th[T1].op = "compare_and_swap" /\ th[T1].pc # "done"
            /\ th'[T1].pc = "done" /\ th'[T1].ret = Ok(Ok("swapped"))) =>
          /\ IsNone(th[T1].new) =>
                /\ th[T1].key \notin DOMAIN expires_at'
                /\ BucketsIn(expires_at_inverse', th[T1].key) = {}
          /\ (IsSome(th[T1].new) /\ extend_on_update) =>
                /\ th[T1].key \in DOMAIN expires_at'
                /\ BucketsIn(expires_at_inverse', th[T1].key) =
                        {to_string(Decode(expires_at'[th[T1].key]).val)}
                /\ Decode(expires_at'[th[T1].key]).val = new_expiry(T1)
          /\ (IsSome(th[T1].new) /\ ~extend_on_update) =>
                UNCHANGED <<expires_at, expires_at_inverse>>
      ]_vars

\* the one caller completes operation op with this step
Completes(op) ==
    th[T1].op = op /\ th[T1].pc # "done" /\ th'[T1].pc = "done"
\* k has no forward entry and is in no bucket after the step
NoMetadataAfter(k) ==
    /\ k \notin DOMAIN expires_at'
    /\ BucketsIn(expires_at_inverse', k) = {}
\* after the step k's forward entry is the expiry of this refresh and k is
\* a member of exactly the bucket of that expiry
RefreshedAfter(k) ==
    /\ k \in DOMAIN expires_at'
    /\ IsSome(th[T1].at)
    /\ Decode(expires_at'[k]).val = new_expiry(T1)
    /\ BucketsIn(expires_at_inverse', k) = {to_string(new_expiry(T1))}
\* the step leaves k's forward entry and bucket membership as they were
MetadataKept(k) ==
    /\ TreeGet(expires_at', k) = TreeGet(expires_at, k)
    /\ BucketsIn(expires_at_inverse', k) = BucketsOf(k)

\* C11: update_and_fetch(k, f) refreshes k's expiry when the resulting value
\* is present and extend_on_update is set, deletes k's metadata when the
\* resulting value is absent, and leaves k's existing metadata unchanged
\* when the resulting value is present and extend_on_update is not set.
C11_UpdateAndFetchBookkeeping ==
    [][ /\ (Completes("update_and_fetch") /\ th'[T1].ret.ok) =>
            /\ (IsSome(th'[T1].ret.val) /\ extend_on_update) =>
                    RefreshedAfter(th[T1].key)
            /\ IsNone(th'[T1].ret.val) => NoMetadataAfter(th[T1].key)
        /\ (th[T1].op = "update_and_fetch" /\ th[T1].pc \notin {"data", "done"}
                /\ IsSome(th[T1].ret.val) /\ ~extend_on_update) =>
            UNCHANGED <<expires_at, expires_at_inverse>>
      ]_vars

\* C12: fetch_and_update(k, f) decides its metadata effect from the value f
\* stores: when a value is stored and extend_on_update is set, k has
\* refreshed metadata afterwards, also when k was absent before; when
\* nothing is stored, k has no forward entry and no bucket membership.
C12_FetchAndUpdateBookkeeping ==
    [][ (Completes("fetch_and_update") /\ th'[T1].ret.ok) =>
            /\ (th[T1].key \in DOMAIN data' /\ extend_on_update) =>
                    RefreshedAfter(th[T1].key)
            /\ th[T1].key \notin DOMAIN data' => NoMetadataAfter(th[T1].key)
      ]_vars

\* C20: pop_min (pop_max) removes the entry with the least (greatest) key
\* from data and returns it, then deletes that key's forward entry and
\* bucket membership; no step of it changes the metadata of another key;
\* on an empty tree it returns None and changes nothing.
C20_PopRemovesExtremal ==
    [][ (th[T1].op \in {"pop_min", "pop_max"} /\ th[T1].pc # "done"
            /\ th' # th) =>
          /\ th[T1].pc = "data" =>
                IF DOMAIN data = {}
                THEN /\ UNCHANGED trees
                     /\ th'[T1].pc = "done"
                     /\ th'[T1].ret = Ok(None)
                ELSE \E k \in DOMAIN data :
                        /\ \A x \in DOMAIN data \ {k} :
                                IF th[T1].op = "pop_min"
                                THEN KeyLess(k, x) ELSE KeyLess(x, k)
                        /\ data' = TreeRemove(data, k)
                        /\ th'[T1].ret = Ok(Some(<<k, Decode(data[k]).val>>))
                        /\ th'[T1].key = k
                        /\ UNCHANGED <<expires_at, expires_at_inverse>>
          /\ th[T1].pc # "data" =>
                /\ UNCHANGED data
                /\ \A x \in Keys \ {th[T1].key} : MetadataKept(x)
          /\ (th'[T1].pc = "done" /\ IsSome(th'[T1].ret.val)) =>
                NoMetadataAfter(th'[T1].key)
      ]_vars

\* pop_min has popped "a" and taken it out of the bucket it shared with "b",
\* which is still stored with its metadata
C20_Witness ==
    /\ Finished("pop_min")
    /\ th[T1].ret.ok /\ IsSome(th[T1].ret.val)
    /\ th[T1].key = "a"
    /\ IsSome(th[T1].prev)
    /\ "b" \in DOMAIN data
    /\ BucketsOf("b") = {to_string(Unwrap(th[T1].prev))}

\* C13: apply_batch writes every change of the batch to data in one atomic
\* step and nothing to data afterwards; under extend_on_update every key
\* the batch inserts ends with a forward entry of apply time plus
\* expiration_length and as a member of that bucket only, while the forward
\* entry and bucket membership of every other key, the keys the batch
\* removes among them, stay exactly as they were; with extend_on_update
\* unset no step changes expires_at or expires_at_inverse.
C13_BatchBookkeeping ==
    [][ (th[T1].op = "apply_batch" /\ th[T1].pc # "done" /\ th' # th) =>
          /\ th[T1].pc = "data" =>
                /\ \A k \in BatchKeys :
                        TreeGet(data', k) =
                            IF k \in DOMAIN th[T1].batch.writes
                            THEN th[T1].batch.writes[k] ELSE TreeGet(data, k)
                /\ UNCHANGED <<expires_at, expires_at_inverse>>
          /\ th[T1].pc # "data" => UNCHANGED data
          /\ \A k \in BatchKeys \ th[T1].batch.keys : MetadataKept(k)
          /\ ~extend_on_update => UNCHANGED <<expires_at, expires_at_inverse>>
          /\ (th'[T1].pc = "done" /\ extend_on_update) =>
                \A k \in th[T1].batch.keys : RefreshedAfter(k)
      ]_vars

\* a batch inserting "a" and "b" and removing "c" has been applied: "a" and
\* "b" share the fresh bucket, "c" is gone from data and keeps its older
\* forward entry and bucket
C13_Witness ==
    /\ Finished("apply_batch")
    /\ extend_on_update
    /\ th[T1].batch.keys = {"a", "b"}
    /\ DOMAIN th[T1].batch.writes = BatchKeys
    /\ DOMAIN data = {"a", "b"}
    /\ "c" \in DOMAIN expires_at
    /\ BucketsOf("c") = {to_string(forward("c"))}
    /\ forward("c") < forward("a")
    /\ BucketsOf("a") = BucketsOf("b")

C15_TxBookkeepingNotRolledBack ==
    /\ [][ th[T1].op = "transaction" =>
            /\ data' # data =>
                    /\ th[T1].pc = "tx" /\ th'[T1].pc = "done"
                    /\ th'[T1].ret = Ok("committed")
            /\ (th[T1].pc = "tx" /\ th'[T1].pc = "done"
                    /\ th'[T1].ret = Err("abort")) => UNCHANGED trees
            /\ (th[T1].pc = "update_new" /\ th'[T1].pc = "tx") =>
                    RefreshedAfter(th[T1].key)
            /\ (th[T1].pc \in {"remove_expires_at", "remove_prev"}
                    /\ th'[T1].pc = "tx") => NoMetadataAfter(th[T1].key)
         ]_vars
    /\ []((Finished("transaction") /\ th[T1].ret = Err("abort")
                /\ th[T1].log # <<>>) =>
            LET last == th[T1].log[Len(th[T1].log)] IN
            /\ (last[1] = "insert" /\ extend_on_update) =>
                    /\ last[2] \in DOMAIN expires_at
                    /\ BucketsOf(last[2]) = {to_string(forward(last[2]))}
            /\ last[1] = "remove" =>
                    /\ last[2] \notin DOMAIN expires_at
                    /\ BucketsOf(last[2]) = {})

\* a transaction that has removed "b" and inserted "a" is still open: data
\* holds "b" and not "a", the metadata holds "a" and not "b", and the
\* reader's expired() has already yielded "a"
C15_Witness ==
    /\ th[T1].op = "transaction" /\ th[T1].pc = "tx"
    /\ th[T1].log = <<<<"remove", "b">>, <<"insert", "a">>>>
    /\ DOMAIN data = {"b"}
    /\ DOMAIN expires_at = {"a"}
    /\ th[T2].op = "expired" /\ th[T2].pc = "done"
    /\ th[T2].ret = Ok(<<"a">>)

\* the positions of the bookkeeping, which follow the data step
Bookkeeping ==
    {"update_expires_at", "update_prev", "update_new", "remove_expires_at",
     "remove_prev"}
\* the operations of the ExpiringTree that write data
DataOps ==
    {"insert", "remove", "compare_and_swap", "update_and_fetch",
     "fetch_and_update", "pop_min", "pop_max", "apply_batch"}

\* C16: in every mutating operation the data mutation comes before any
\* bookkeeping: data is written only by the data step, expires_at and
\* expires_at_inverse only by bookkeeping steps, which run only after the
\* data step has returned Ok; when the data mutation returns an error the
\* operation returns that error with expires_at and expires_at_inverse
\* unchanged.
C16_DataFirst ==
    /\ [][ th[T1].op \in DataOps =>
            /\ data' # data => th[T1].pc = "data"
            /\ <<expires_at, expires_at_inverse>>' # <<expires_at, expires_at_inverse>>
                    => th[T1].pc \in Bookkeeping
            /\ (th[T1].pc = "data" /\ th' # th /\ ~th'[T1].ret.ok) =>
                    /\ th'[T1].pc = "done"
                    /\ th'[T1].ret = Err("sled")
                    /\ UNCHANGED <<expires_at, expires_at_inverse>>
         ]_vars
    /\ []((th[T1].op \in DataOps /\ th[T1].pc \in Bookkeeping) =>
            (th[T1].ret # NoRet /\ th[T1].ret.ok))

\* the data step of an insert has failed: the insert has returned the error
\* and the key keeps the forward entry and bucket it had
C16_Witness ==
    /\ Finished("insert")
    /\ extend_on_update
    /\ th[T1].ret = Err("sled")
    /\ IsNone(th[T1].at)
    /\ th[T1].key \in DOMAIN expires_at
    /\ BucketsOf(th[T1].key) = {to_string(forward(th[T1].key))}

\* C17: when a bookkeeping step fails, the operation returns that error at
\* once and data keeps the mutation already made: after a failed insert
\* data[k] holds the new value, after a failed apply_batch every write of
\* the batch is in data and the keys the loop had not reached are not
\* refreshed.
C17_BookkeepingErrorSurfaces ==
    /\ [][ (th[T1].op \in DataOps /\ th[T1].pc \in Bookkeeping /\ th' # th
                /\ ~th'[T1].ret.ok) =>
            /\ th'[T1].pc = "done"
            /\ th'[T1].ret = Err("sled")
            /\ UNCHANGED data
            /\ \A k \in th[T1].batch.rest : MetadataKept(k)
         ]_vars
    /\ []((Finished("insert") /\ ~th[T1].ret.ok /\ IsSome(th[T1].at)) =>
            TreeGet(data, th[T1].key) = Some(Encode(Unwrap(th[T1].new)).val))
    /\ []((Finished("apply_batch") /\ ~th[T1].ret.ok /\ IsSome(th[T1].at)) =>
            \A k \in DOMAIN th[T1].batch.writes :
                TreeGet(data, k) = th[T1].batch.writes[k])

\* apply_batch of inserts of "a" and "b" has failed in the refresh of the
\* first key: both values are in data, the error is returned and the key
\* the loop had not reached has no metadata
C17_Witness ==
    /\ Finished("apply_batch")
    /\ th[T1].ret = Err("sled")
    /\ IsSome(th[T1].at)
    /\ th[T1].batch.keys = {"a", "b"}
    /\ Cardinality(th[T1].batch.rest) = 1
    /\ DOMAIN data = {"a", "b"}
    /\ \A k \in th[T1].batch.rest :
            k \notin DOMAIN expires_at /\ BucketsOf(k) = {}

\* C18: after a refresh of k has failed part-way, an insert(k, _) that
\* succeeds leaves k in exactly one bucket, the one of its forward entry.
C18_RetryRestores ==
    (Finished("insert") /\ th[T1].ret.ok) =>
        /\ th[T1].key \in DOMAIN expires_at
        /\ BucketsOf(th[T1].key) = {to_string(forward(th[T1].key))}

\* C19: once every concurrently running insert and remove has returned,
\* each key in data has a forward entry and is a member of the bucket of
\* that entry and of no other bucket.
C19_EventuallyConsistent ==
    (\A t \in Threads : th[t].pc = "idle") =>
        \A k \in DOMAIN data :
            /\ k \in DOMAIN expires_at
            /\ BucketsOf(k) = {to_string(forward(k))}

\* C21: while an ExpiringTree is iterated, forward or backward, over any
\* range, data does not change; with extend_on_fetch unset expires_at and
\* expires_at_inverse do not change either; under extend_on_fetch nothing
\* changes until next() has taken an entry, the keys the iterator has still
\* to visit keep their forward entry and bucket membership through every
\* step, only the key of the entry taken is touched, and when the entry is
\* yielded its key has the expiry of that moment plus expiration_length.
C21_IterRefreshesLazily ==
    [][ (th[T1].op = "iter" /\ th[T1].pc # "done") =>
          /\ UNCHANGED data
          /\ ~extend_on_fetch => UNCHANGED <<expires_at, expires_at_inverse>>
          /\ th[T1].pc \in {"iter", "now"} =>
                UNCHANGED <<expires_at, expires_at_inverse>>
          /\ \A x \in IterKeys(data, th'[T1].it) : MetadataKept(x)
          /\ \A x \in Keys \ {th[T1].key} : MetadataKept(x)
          /\ (Len(th'[T1].ret.val) > Len(th[T1].ret.val) /\ extend_on_fetch
                /\ th'[T1].ret.val[Len(th'[T1].ret.val)].ok) =>
                /\ th'[T1].ret.val[Len(th'[T1].ret.val)].val[1] = th[T1].key
                /\ RefreshedAfter(th[T1].key)
      ]_vars

\* an iterator over every key was dropped after next() had yielded "a":
\* "a" is refreshed, "b", not reached, keeps its older expiry
C21_Witness ==
    /\ Finished("iter")
    /\ extend_on_fetch
    /\ th[T1].ret.val = <<Ok(<<"a", "v1">>)>>
    /\ "b" \in IterKeys(data, th[T1].it)
    /\ "b" \in DOMAIN expires_at
    /\ forward("b") < forward("a")
    /\ BucketsOf("b") = {to_string(forward("b"))}

\* C22: clear() empties data first, then expires_at, then
\* expires_at_inverse, each in steps of its own: expires_at is written only
\* once data is empty and expires_at_inverse only once expires_at is empty
\* too, so a concurrent reader can find data empty while expired() yields
\* keys; when clear() returns and no other thread writes, all three trees
\* are empty.
C22_ClearNotAtomic ==
    /\ [][ (th[T1].op = "clear" /\ th[T1].pc # "done") =>
            /\ data' # data =>
                    th[T1].pc = "clear" /\ UNCHANGED <<expires_at, expires_at_inverse>>
            /\ expires_at' # expires_at =>
                    /\ th[T1].pc = "clear_expires_at"
                    /\ data = EmptyTree
                    /\ UNCHANGED <<data, expires_at_inverse>>
            /\ expires_at_inverse' # expires_at_inverse =>
                    /\ th[T1].pc = "clear_expires_at_inverse"
                    /\ data = EmptyTree /\ expires_at = EmptyTree
         ]_vars
    /\ [](Finished("clear") =>
            /\ th[T1].ret = Ok("unit")
            /\ data = EmptyTree
            /\ expires_at = EmptyTree
            /\ expires_at_inverse = EmptyTree)

\* clear() has emptied data and not yet the metadata, and the reader's
\* expired() is in front of a bucket whose keys it yields next
C22_Witness ==
    /\ th[T1].op = "clear" /\ th[T1].pc = "clear_expires_at"
    /\ data = EmptyTree
    /\ DOMAIN expires_at = Keys
    /\ th[T2].op = "expired" /\ th[T2].pc = "expired_next"
    /\ expired_range(T2) # {}
    /\ Range(th[T2].ret.val) = {}

\* the one caller's call of op on the StructuredTree returns with this step
Returns(op) ==
    th[T1].pc = "structured" /\ th[T1].op = op /\ th'[T1].pc = "done"
\* the step changes no entry of data other than k's
OnlyAt(k) == \A x \in Keys \ {k} : TreeGet(data', x) = TreeGet(data, x)
\* what data holds for the key of the call, before the step
Current == TreeGet(data, th[T1].key)

\* C23: compare_and_swap(key, expected, proposed) is one atomic step; it
\* succeeds exactly when the current value equals expected (None: the key
\* is absent) and then sets the key to proposed (None: the key is deleted)
\* and nothing else; otherwise it returns the current and the proposed
\* value and leaves the tree unchanged.  The only other return is the error
\* of decoding the current bytes, with the tree unchanged as well.
C23_SwapOrConflict ==
    [][ Returns("compare_and_swap") =>
          IF DecodeOpt(Current) = Ok(th[T1].old)
          THEN /\ th'[T1].ret = Ok(Ok("swapped"))
               /\ TreeGet(data', th[T1].key) = EncodeOpt(th[T1].new).val
               /\ OnlyAt(th[T1].key)
          ELSE IF DecodeOpt(Current).ok
          THEN /\ th'[T1].ret =
                      Ok(Err([current |-> DecodeOpt(Current).val,
                              proposed |-> th[T1].new]))
               /\ UNCHANGED data
          ELSE /\ th'[T1].ret = Err("decode")
               /\ UNCHANGED data
      ]_vars

\* compare_and_swap(k, Some(v1), Some(v2)) has met v2 and returned the
\* conflict, next to a key whose bytes do not decode
C23_Witness ==
    /\ Finished("compare_and_swap")
    /\ th[T1].old = Some("v1") /\ th[T1].new = Some("v2")
    /\ th[T1].ret = Ok(Err([current |-> Some("v2"), proposed |-> Some("v2")]))
    /\ \E k \in DOMAIN data : data[k] = RawBytes

\* C24: every operation of a StructuredTree on a key whose stored bytes do
\* not decode returns the decode error, and update_and_fetch and
\* fetch_and_update on such a key leave the stored bytes as they are.
C24_DecodeErrorsPropagate ==
    [][ (th[T1].pc = "structured" /\ th'[T1].pc = "done"
            /\ IsSome(Current) /\ ~Decode(Unwrap(Current)).ok) =>
          /\ th'[T1].ret = Err("decode")
          /\ th[T1].op \in {"update_and_fetch", "fetch_and_update"} =>
                UNCHANGED data
      ]_vars

BeforeNow ==
    {s \in DOMAIN expires_at_inverse : BytesLess(s, to_string(Unwrap(th[T1].at)))}

\* C26: expired() passes over a bucket whose bytes do not decode and goes
\* on: a scan standing on such a bucket moves to the next one without
\* ending and without yielding an error, and the finished scan has yielded
\* exactly the keys of the decodable buckets before `now`, those behind an
\* undecodable bucket included.
C26_SkipsUndecodableBucket ==
    /\ [][ (th[T1].pc = "expired_next" /\ th' # th /\ expired_range(T1) # {}) =>
            /\ th'[T1].pc = "expired_next"
            /\ th'[T1].ret.ok
            /\ Range(th'[T1].ret.val) \subseteq Keys
         ]_vars
    /\ [](Finished("expired") =>
            /\ th[T1].ret.ok
            /\ Range(th[T1].ret.val) =
                    UNION {bucket(expires_at_inverse, s) :
                            s \in {x \in BeforeNow :
                                    Decode(expires_at_inverse[x]).ok}})

\* expired() has yielded the key of a bucket that lies behind a bucket
\* whose bytes do not decode
C26_Witness ==
    /\ Finished("expired")
    /\ Len(th[T1].ret.val) >= 1
    /\ \E s \in BeforeNow :
            /\ ~Decode(expires_at_inverse[s]).ok
            /\ BytesLess(s, to_string(forward(th[T1].ret.val[1])))

\* C27: every insert, get and remove that a thread has started returns,
\* when every thread that can take a step eventually takes one and the
\* callers start finitely many operations; the retry loops of the bucket
\* updates of refresh and removal end.
C27_EveryOperationReturns ==
    \A t \in Threads : (th[t].pc # "idle") ~> (th[t].pc = "idle")

\* a swap of a bucket update has failed because another thread had written
\* the bucket, and the loop is going round with the bytes it found
C27_Witness ==
    \E t \in Threads :
        /\ Reading(t)
        /\ Unwrap(th[t].seen).retries >= 1
        /\ TreeGet(expires_at_inverse, BucketOfCall(t)) = Unwrap(th[t].seen).current

\* the string of the `now` of the caller's expired()
NowString == to_string(Unwrap(th[T1].at))

\* C28: the upper bound of expired() is exclusive: every bucket the scan
\* reads has a timestamp string strictly smaller than the string of the
\* `now` taken when expired() was called, the finished scan has read every
\* such bucket and yielded exactly their keys, and a bucket whose timestamp
\* equals `now` is not read.
C28_ExclusiveUpperBound ==
    /\ [][ (th[T1].pc = "expired_next" /\ th'[T1].pc = "expired_next"
                /\ th' # th) =>
            /\ Unwrap(th'[T1].cursor) \in DOMAIN expires_at_inverse
            /\ BytesLess(Unwrap(th'[T1].cursor), NowString)
            /\ Unwrap(th'[T1].cursor) # NowString
         ]_vars
    /\ [](Finished("expired") =>
            /\ Range(th[T1].ret.val) =
                    UNION {bucket(expires_at_inverse, s) : s \in BeforeNow}
            /\ IsNone(th[T1].cursor) <=> BeforeNow = {}
            /\ IsSome(th[T1].cursor) =>
                    /\ Unwrap(th[T1].cursor) \in BeforeNow
                    /\ \A s \in BeforeNow : ~BytesLess(Unwrap(th[T1].cursor), s))

\* expired() has yielded the key of an earlier bucket and has left out the
\* key of a bucket whose timestamp is its `now`
C28_Witness ==
    /\ Finished("expired")
    /\ Len(th[T1].ret.val) >= 1
    /\ NowString \in DOMAIN expires_at_inverse
    /\ bucket(expires_at_inverse, NowString) # {}
    /\ bucket(expires_at_inverse, NowString) \cap Range(th[T1].ret.val) = {}

\* the positions of an operation in front of a step of update_expires_at
\* or of the bucket update of remove_expires_at
MetadataSteps ==
    {"now", "batch_now", "batch_next", "update_expires_at", "update_prev",
     "update_new", "remove_prev"}

\* C29: on a tree built with the builder defaults (neither flag set, twelve
\* hours) that starts empty, no operation creates expiry metadata:
\* expires_at and expires_at_inverse are empty in every state, no operation
\* gets to a refresh or to a bucket update, and expired() yields nothing.
C29_DefaultsKeepNoMetadata ==
    /\ DOMAIN expires_at = {}
    /\ DOMAIN expires_at_inverse = {}
    /\ th[T1].pc \notin MetadataSteps
    /\ (th[T1].op = "expired" /\ th[T1].pc \in {"expired_next", "done"}) =>
            th[T1].ret = Ok(<<>>)

\* expired() has returned with both keys stored and the clock advanced
C29_Witness ==
    /\ Finished("expired")
    /\ DOMAIN data = Keys
    /\ clock >= 1

\* C30: expiry metadata exists only for stored keys: between the
\* operations of one caller (insert, get, remove, compare_and_swap,
\* update_and_fetch, fetch_and_update, get_lt, get_gt, pop_min, pop_max,
\* none of them failing), under any setting of the flags, every key with a
\* forward entry in expires_at or in a bucket is present in data, and
\* expired() yields no key that data does not hold.
C30_MetadataOnlyForStoredKeys ==
    Quiescent =>
        /\ DOMAIN expires_at \subseteq DOMAIN data
        /\ \A k \in Keys : BucketsOf(k) # {} => k \in DOMAIN data
        /\ Finished("expired") => Range(th[T1].ret.val) \subseteq DOMAIN data

\* C31: between the operations of one caller (every operation, apply_batch
\* included, none failing) the forward and the inverted index mirror each
\* other: a key is a member of the bucket of a timestamp exactly when its
\* forward entry is that timestamp, every bucket decodes and is the bucket
\* of some forward entry, and there are no more buckets than forward
\* entries.
C31_IndexesMirror ==
    Quiescent =>
        /\ \A s \in DOMAIN expires_at_inverse :
                /\ Decode(expires_at_inverse[s]).ok
                /\ \A k \in bucket(expires_at_inverse, s) :
                        k \in DOMAIN expires_at /\ to_string(forward(k)) = s
        /\ \A k \in DOMAIN expires_at :
                BucketsOf(k) = {to_string(forward(k))}
        /\ Cardinality(DOMAIN expires_at_inverse) <=
                Cardinality(DOMAIN expires_at)

\* apply_batch has returned, after the clock advanced, with both keys of
\* its batch refreshed and no bucket but theirs left
C31_Witness ==
    /\ Finished("apply_batch")
    /\ clock >= 1
    /\ DOMAIN expires_at = Keys
    /\ Cardinality(DOMAIN expires_at_inverse) = 1
    /\ th[T1].batch.keys = Keys

\* the members of bucket s of tree inv, none when there is no such bucket
Members(inv, s) == IF s \in DOMAIN inv THEN bucket(inv, s) ELSE {}

\* C32: bucket updates of concurrent callers lose no membership: a step of
\* a thread changes the membership of no key but the thread's own in any
\* bucket, and once two callers that work on distinct keys have returned,
\* each key with a forward entry is a member of the bucket of that entry
\* (both keys of one bucket when the timestamps agree) and of no other.
C32_NoLostMembership ==
    [][ /\ \A t \in Threads : th'[t] # th[t] =>
            \A s \in DOMAIN expires_at_inverse \cup DOMAIN expires_at_inverse' :
                Members(expires_at_inverse', s) \ {th[t].key} =
                    Members(expires_at_inverse, s) \ {th[t].key}
        /\ (\A t \in Threads : th'[t].pc = "idle") =>
            \A k \in Keys :
                BucketsIn(expires_at_inverse', k) =
                    IF k \in DOMAIN expires_at'
                    THEN {to_string(Decode(expires_at'[k]).val)} ELSE {}
      ]_vars

\* the swap of a refresh has failed because the other caller added its key
\* to the same bucket in between, and the loop is going round
C32_Witness ==
    \E t \in Threads :
        /\ th[t].pc = "update_new"
        /\ Reading(t)
        /\ Unwrap(th[t].seen).retries >= 1
        /\ Members(expires_at_inverse, BucketOfCall(t)) = Keys \ {th[t].key}

\* what the closure did last to key k in the run that log records
LastOp(log, k) ==
    LET at == {i \in DOMAIN log : log[i][2] = k} IN
    IF at = {} THEN "none"
    ELSE log[CHOOSE i \in at : \A j \in at : j <= i][1]

\* C33: when the engine runs the closure of a transaction again, the new run
\* starts with no writes and with the metadata as the earlier run left it;
\* in every run each insert of the closure is followed by one refresh of its
\* key and each remove by one removal of its metadata; and when the
\* transaction commits under extend_on_update every key the closure
\* inserted is in data, has a forward entry and is a member of exactly the
\* bucket of that entry, which for the key inserted last is the expiry
\* computed in the last run.
C33_RerunBookkeeping ==
    [][ th[T1].op = "transaction" =>
        /\ th'[T1].runs # th[T1].runs =>
                /\ th'[T1].log = <<>>
                /\ th'[T1].batch = EmptyBatch
                /\ UNCHANGED trees
        /\ (th[T1].pc = "tx" /\ Len(th'[T1].log) > Len(th[T1].log)) =>
                LET last == th'[T1].log[Len(th'[T1].log)] IN
                /\ Len(th'[T1].log) = Len(th[T1].log) + 1
                /\ th'[T1].key = last[2]
                /\ (last[1] = "insert" /\ extend_on_update) => th'[T1].pc = "now"
                /\ (last[1] = "insert" /\ ~extend_on_update) => th'[T1].pc = "tx"
                /\ last[1] = "remove" => th'[T1].pc = "remove_expires_at"
        /\ (th[T1].pc = "update_new" /\ th'[T1].pc = "tx") =>
                /\ th[T1].log[Len(th[T1].log)] = <<"insert", th[T1].key>>
                /\ RefreshedAfter(th[T1].key)
        /\ (th[T1].pc = "tx" /\ th'[T1].pc = "done" /\ extend_on_update
                /\ th'[T1].ret = Ok("committed")) =>
                \A k \in Keys : LastOp(th[T1].log, k) = "insert" =>
                    /\ k \in DOMAIN data'
                    /\ k \in DOMAIN expires_at
                    /\ BucketsOf(k) = {to_string(forward(k))}
                    /\ th[T1].log[Len(th[T1].log)] = <<"insert", k>> =>
                            forward(k) = new_expiry(T1)
      ]_vars

\* a transaction has committed after its closure ran again at a later time:
\* the key it inserted last has the expiry of the later run, and no bucket
\* but that one is left
C33_Witness ==
    /\ Finished("transaction")
    /\ th[T1].ret = Ok("committed")
    /\ th[T1].runs >= 1
    /\ extend_on_update
    /\ th[T1].log # <<>>
    /\ th[T1].log[Len(th[T1].log)][1] = "insert"
    /\ Unwrap(th[T1].at) >= 1
    /\ forward(th[T1].key) = new_expiry(T1)
    /\ DOMAIN expires_at_inverse = {to_string(new_expiry(T1))}
    /\ th[T1].key \in DOMAIN data

\* the operation of the one caller is get_lt or get_gt
Neighbouring == th[T1].op \in {"get_lt", "get_gt"}

\* C34: under extend_on_fetch get_lt(p) and get_gt(p) refresh the key they
\* return and never the probe p, and change no metadata when they return
\* None; get(k) refreshes k only when k is present in data.
C34_FetchRefreshesFoundKey ==
    [][ /\ (Neighbouring /\ th[T1].pc = "data" /\ th'[T1] # th[T1]
                /\ IsNone(th'[T1].ret.val)) =>
                th'[T1].pc = "done" /\ UNCHANGED trees
        /\ (Neighbouring /\ th[T1].pc = "data" /\ th'[T1] # th[T1]
                /\ IsSome(th'[T1].ret.val)) =>
                /\ Unwrap(th'[T1].ret.val)[1] # th[T1].key
                /\ Unwrap(th'[T1].ret.val)[1] \in DOMAIN data
                /\ UNCHANGED trees
                /\ IF extend_on_fetch
                   THEN /\ th'[T1].pc = "now"
                        /\ th'[T1].key = Unwrap(th'[T1].ret.val)[1]
                   ELSE th'[T1].pc = "done"
        /\ (Neighbouring /\ th[T1].pc \notin {"idle", "data", "done"}) =>
                /\ th[T1].key = Unwrap(th[T1].ret.val)[1]
                /\ \A k \in Keys \ {th[T1].key} : MetadataKept(k)
                /\ (th'[T1].pc = "done" /\ th[T1].pc # "done") =>
                        RefreshedAfter(th[T1].key)
        /\ (th[T1].op = "get" /\ th[T1].pc = "data" /\ th'[T1] # th[T1]) =>
                /\ th'[T1].pc = "now" <=>
                        (extend_on_fetch /\ th[T1].key \in DOMAIN data)
                /\ UNCHANGED trees
      ]_vars

\* C35: contains_key, len, is_empty, name and flush change none of data,
\* expires_at and expires_at_inverse, under either setting of
\* extend_on_fetch: no step of them writes a tree, none of them gets to a
\* refresh or a removal of metadata, and contains_key, len and is_empty
\* return what data holds.
C35_QueriesOnlyRead ==
    [][ th[T1].op \in QueryOps =>
        /\ UNCHANGED trees
        /\ th'[T1].pc \notin MetadataSteps \cup {"remove_expires_at"}
        /\ (th[T1].pc = "data" /\ th'[T1] # th[T1]) =>
            /\ th[T1].op = "contains_key" =>
                    th'[T1].ret = Ok(th[T1].key \in DOMAIN data)
            /\ th[T1].op = "len" => th'[T1].ret = Ok(Cardinality(DOMAIN data))
            /\ th[T1].op = "is_empty" => th'[T1].ret = Ok(DOMAIN data = {})
            /\ th[T1].op = "name" => th'[T1].ret = Ok(TreeName)
      ]_vars

\* contains_key has found a key under extend_on_fetch whose expiry a
\* refresh at this time would have moved
C35_Witness ==
    /\ Finished("contains_key")
    /\ extend_on_fetch
    /\ th[T1].ret = Ok(TRUE)
    /\ th[T1].key \in DOMAIN expires_at
    /\ forward(th[T1].key) < clock + expiration_length


\* C36: two trees built from the same Db under different names use disjoint
\* collections: a step of an operation of the second tree leaves the data,
\* the forward index and the inverted index of the first tree as they were,
\* and a step of an operation of the first tree leaves the three collections
\* of the second tree as they were.
C36_TreesAreDisjoint ==
    [][/\ second.name # TreeName
       /\ th'[T2] # th[T2] => UNCHANGED <<data, expires_at, expires_at_inverse>>
       /\ th'[T1] # th[T1] =>
            \A c \in CollectionsOf(second.name) : Coll(c)' = Coll(c)]_vars


\* the recorded operations of a batch that returned Ok(())
Succeeded(log) == SelectSeq(log, LAMBDA e : e[1] # "failed")

\* C37: an ExpiringBatch.insert(k, v) that returns the encode error leaves
\* the batch as it was before the call, so that apply_batch afterwards
\* writes to data and refreshes only what the calls that succeeded
\* recorded: it changes data at a key only if an insert or a remove of the
\* key succeeded, and it refreshes the expiry of a key only if the last
\* call for the key that succeeded is an insert.
C37_FailedInsertLeavesBatch ==
    [][ /\ (/\ th[T1].pc = "idle"
            /\ Len(th'[T1].log) = Len(th[T1].log) + 1
            /\ th'[T1].log[Len(th'[T1].log)][1] = "failed")
                => th'[T1].batch = th[T1].batch
        /\ (th[T1].pc = "data" /\ th[T1].op = "apply_batch") =>
                \A k \in Keys :
                    TreeGet(data', k) # TreeGet(data, k) =>
                        LastOp(Succeeded(th[T1].log), k) \in {"insert", "remove"}
        /\ (th[T1].pc = "batch_next" /\ th'[T1].pc = "update_expires_at") =>
                LastOp(Succeeded(th[T1].log), th'[T1].key) = "insert"
      ]_vars

====
